---- MODULE Spec2Model ----
(***************************************************************************)
(* Nowde firmware (Hemisphere-Project/MillluBridge, Nowde/src): a node     *)
(* that bridges a USB-MIDI host to peer nodes over ESP-NOW.  The module    *)
(* models the peer tables, the SysEx command router, the media-sync        *)
(* fan-out, the receiver's sync engine and the 7-bit codec.                *)
(*                                                                         *)
(* Conventions.  C arrays indexed 0..n-1 are functions on 1..n.  A byte is *)
(* a number in 0..255.  A 32-bit word whose full range matters (mesh time, *)
(* media position) is a pair <<hi, lo>> of 16-bit halves; millis() values  *)
(* stay far below 2^31 and are plain naturals.                             *)
(***************************************************************************)
EXTENDS Integers, Sequences, FiniteSets, TLC

(* ------------------------- program constants -------------------------- *)
MAX_LAYER_LENGTH == 16
MAX_VERSION_LENGTH == 8
MAX_SENDERS == 10
MAX_RECEIVERS == 10
RECEIVER_TIMEOUT_MS == 5000
SENDER_TIMEOUT_MS == 5000
SYSEX_START == 240
SYSEX_END == 247
SYSEX_MANUFACTURER_ID == 125
SYSEX_CMD_QUERY_CONFIG == 1
SYSEX_CMD_PUSH_FULL_CONFIG == 2
SYSEX_CMD_QUERY_RUNNING_STATE == 3
SYSEX_CMD_MEDIA_SYNC == 16
SYSEX_CMD_CHANGE_RECEIVER_LAYER == 17
SYSEX_CMD_HELLO == 32
SYSEX_CMD_CONFIG_STATE == 33
SYSEX_CMD_RUNNING_STATE == 34
SYSEX_CMD_ERROR_REPORT == 48
ERROR_CONFIG_INVALID == 1
ERROR_SYSEX_PARSE_ERROR == 2
ERROR_ESPNOW_SEND_FAILED == 3
ERROR_RECEIVER_TIMEOUT == 5
ESPNOW_MSG_SENDER_BEACON == 1
ESPNOW_MSG_RECEIVER_INFO == 2
ESPNOW_MSG_MEDIA_SYNC == 3
LINK_LOST_TIMEOUT_MS == 3000
CLOCK_DESYNC_THRESHOLD_MS == 200
MAX_DELAYED_PACKETS == 20
\* "1.0"
NOWDE_VERSION == <<49, 46, 48>>
\* "-"
DEFAULT_RECEIVER_LAYER == <<45>>
broadcastAddress == <<255, 255, 255, 255, 255, 255>>
\* sizeof(ReceiverInfo): type + layer[16] + version[8] + mediaIndex, packed
SizeofReceiverInfo == 26
\* sizeof(MediaSyncPacket): type + layer[16] + index + position(4) + state + mesh(4)
SizeofMediaSyncPacket == 27
\* setup() sleeps 500 ms and then 1000 ms before the node starts serving
SetupDelayMs == 500 + 1000

(* ------------------------------ bounds -------------------------------- *)
\* the longest byte sequence given to the codec
MaxCodecLen == 15
\* codec inputs repeat a pattern of this many bytes
PatternLen == 3
\* one step of the clock, in ms
TickMs == 3000
\* the clock stops advancing after this many steps
MaxTicks == 2

(* ------------------------- bytes and C strings ------------------------ *)
Min(S) == CHOOSE x \in S : \A y \in S : x <= y

Pad(s, n) == [i \in 1..n |-> IF i <= Len(s) THEN s[i] ELSE 0]

RECURSIVE StrLenFrom(_, _, _)
StrLenFrom(a, n, i) ==
  IF i > n \/ i > Len(a) THEN i - 1
  ELSE IF a[i] = 0 THEN i - 1
  ELSE StrLenFrom(a, n, i + 1)

\* strnlen(a, n): the bytes before the first NUL among the first n
StrLen(a, n) == StrLenFrom(a, n, 1)

\* strncpy(dst, src, n): the string, then NUL padding up to n bytes
strncpy(src, n) ==
  LET k == StrLen(src, n) IN [i \in 1..n |-> IF i <= k THEN src[i] ELSE 0]

\* dst[n - 1] = '\0'
Terminate(a, n) == [a EXCEPT ![n] = 0]

RECURSIVE StrEqFrom(_, _, _, _)
StrEqFrom(a, b, n, i) ==
  IF i > n THEN TRUE
  ELSE IF a[i] # b[i] THEN FALSE
  ELSE IF a[i] = 0 THEN TRUE
  ELSE StrEqFrom(a, b, n, i + 1)

\* strncmp(a, b, n) == 0: equal up to the first NUL or n bytes
strncmpEq(a, b, n) == StrEqFrom(a, b, n, 1)

macEqual(mac1, mac2) == \A i \in 1..6 : mac1[i] = mac2[i]

\* now - last > limit on unsigned long: when last is ahead of now the
\* difference wraps to 2^32 - (last - now), which is above every limit used
ElapsedExceeds(t, last, limit) == IF t >= last THEN t - last > limit ELSE TRUE

\* now - last >= limit on unsigned long
ElapsedAtLeast(t, last, limit) == IF t >= last THEN t - last >= limit ELSE TRUE

(* ------------------------------- state -------------------------------- *)
VARIABLES
  now,                  \* millis()
  senderModeEnabled,
  receiverModeEnabled,
  subscribedLayer,
  storedLayer,          \* the "layer" key of the preferences store
  senderTable,
  receiverTable,
  peers,                \* the driver's peer list
  rfSimulationEnabled,
  rfSimMaxDelayMs,
  delayedPackets,
  mediaSyncState,
  cc100RepeatIntervalMs, \* the build's CC100_REPEAT_INTERVAL_MS
  espTx,                \* datagrams handed to esp_now_send by the last handler
  usbTx,                \* USB-MIDI packets written by the last handler
  op,                   \* the last handler run and its input
  pushHistory,          \* history: the latest PUSH_FULL_CONFIG envelopes handled
  codec,                \* a 7-bit codec run: its input and what came out
  sysexBuffer,          \* midi.cpp: sysexBuffer[0 .. sysexIndex-1]
  inSysex,              \* midi.cpp: inside an envelope
  loopTask              \* where loop() stands inside an operation that the
                        \* driver's receive callback can interrupt, its locals,
                        \* and the USB packets on the wire from the first
                        \* packet of the envelope it is writing

tableVars == <<senderTable, receiverTable, peers>>
modeVars == <<senderModeEnabled, receiverModeEnabled>>
layerVars == <<subscribedLayer, storedLayer>>
rfVars == <<rfSimulationEnabled, rfSimMaxDelayMs, delayedPackets>>
outVars == <<espTx, usbTx, op>>
syncVars == <<mediaSyncState, cc100RepeatIntervalMs>>
parserVars == <<sysexBuffer, inSysex>>
vars ==
  <<now, modeVars, layerVars, tableVars, rfVars, syncVars, outVars, pushHistory, codec,
    parserVars, loopTask>>

ZeroMac == <<0, 0, 0, 0, 0, 0>>
ZeroLayer == Pad(<<>>, MAX_LAYER_LENGTH)
ZeroVersion == Pad(<<>>, MAX_VERSION_LENGTH)

SenderEntry0 == [mac |-> ZeroMac, lastSeen |-> 0, active |-> FALSE]

ReceiverEntry0 ==
  [mac |-> ZeroMac, layer |-> ZeroLayer, version |-> ZeroVersion,
   lastSeen |-> 0, active |-> FALSE, connected |-> FALSE, mediaIndex |-> 0]

DelayedPacket0 ==
  [sendTime |-> 0, packet |-> <<>>, receiverMac |-> ZeroMac, active |-> FALSE]

MediaSyncState0 ==
  [currentIndex |-> 0, currentPositionMs |-> <<0, 0>>, currentState |-> 0,
   lastSyncTime |-> 0, localClockStartTime |-> 0, lastMTCUpdateTime |-> 0,
   linkLost |-> FALSE, stopOnLinkLost |-> TRUE, lastSentIndex |-> 255,
   lastCC100SendTime |-> 0]

(* ------------------------- 32-bit words ------------------------------- *)
Half == 2^16

\* a natural below 2^31 as a word
Word(n) == <<n \div Half, n % Half>>

\* a + b on uint32_t
AddW(a, b) ==
  LET lo == a[2] + b[2]
      hi == a[1] + b[1] + (lo \div Half)
  IN <<hi % Half, lo % Half>>

\* a - b on uint32_t
SubW(a, b) ==
  LET lo == a[2] - b[2] + Half
      hi == a[1] - b[1] + Half - (IF lo < Half THEN 1 ELSE 0)
  IN <<hi % Half, lo % Half>>

\* static_cast<int32_t>(w): two's complement
ToInt32(w) ==
  IF w[1] >= Half \div 2 THEN (w[1] - Half) * Half + w[2] ELSE w[1] * Half + w[2]

\* the uint32_t a signed value converts to
FromInt32(d) ==
  IF d >= 0 THEN Word(d) ELSE <<((d \div Half) + Half) % Half, d % Half>>

INT32_MIN == ToInt32(<<Half \div 2, 0>>)

(* --------------------------- peer tables ------------------------------ *)
\* the loop's "active && macEqual(...)" hit, or 0 for none
SenderIndex(mac) ==
  LET hit == {i \in 1..MAX_SENDERS :
                senderTable[i].active /\ macEqual(senderTable[i].mac, mac)}
  IN IF hit = {} THEN 0 ELSE Min(hit)

\* a scan that keeps the last inactive row it passes
FreeSenderSlot_Last ==
  LET free == {i \in 1..MAX_SENDERS : ~senderTable[i].active}
  IN IF free = {} THEN 0 ELSE CHOOSE i \in free : \A j \in free : j <= i

\* freeSlot: the first inactive row, or 0 for the code's -1
FreeSenderSlot ==
  LET free == {i \in 1..MAX_SENDERS : ~senderTable[i].active}
  IN IF free = {} THEN 0 ELSE Min(free)

\* a lookup that passes over rows marked missing
ReceiverIndex_ConnectedOnly(mac) ==
  LET hit == {i \in 1..MAX_RECEIVERS :
                /\ receiverTable[i].active
                /\ receiverTable[i].connected
                /\ macEqual(receiverTable[i].mac, mac)}
  IN IF hit = {} THEN 0 ELSE Min(hit)

ReceiverIndex(mac) ==
  LET hit == {i \in 1..MAX_RECEIVERS :
                receiverTable[i].active /\ macEqual(receiverTable[i].mac, mac)}
  IN IF hit = {} THEN 0 ELSE Min(hit)

FreeReceiverSlot ==
  LET free == {i \in 1..MAX_RECEIVERS : ~receiverTable[i].active}
  IN IF free = {} THEN 0 ELSE Min(free)

\* a driver that drops the address it is given
AddPeer_Forgets(mac) == peers

\* esp_now_add_peer: the driver's list gains the address
AddPeer(mac) == peers \cup {mac}

\* a handler that returns without touching any state
NoEffect ==
  /\ espTx' = <<>>
  /\ usbTx' = <<>>
  /\ UNCHANGED <<now, modeVars, layerVars, tableVars, rfVars, syncVars>>

handleSenderBeacon(src) ==
  LET found == SenderIndex(src)
      freeSlot == FreeSenderSlot
  IN /\ senderTable' =
          IF found # 0 THEN [senderTable EXCEPT ![found].lastSeen = now]
          ELSE IF freeSlot # 0
               THEN [senderTable EXCEPT
                       ![freeSlot] = [mac |-> src, lastSeen |-> now, active |-> TRUE]]
               ELSE senderTable
     /\ peers' = IF found = 0 /\ freeSlot # 0 THEN AddPeer(src) ELSE peers
     /\ espTx' = <<>>
     /\ usbTx' = <<>>
     /\ UNCHANGED <<now, modeVars, layerVars, receiverTable, rfVars, syncVars>>

\* the row a ReceiverInfo from a known peer leaves behind
RefreshedReceiver(row, layer) ==
  [row EXCEPT
     !.lastSeen = now,
     !.connected = TRUE,
     !.layer = IF strncmpEq(row.layer, layer, MAX_LAYER_LENGTH)
               THEN row.layer
               ELSE Terminate(strncpy(layer, MAX_LAYER_LENGTH), MAX_LAYER_LENGTH)]

\* the row a ReceiverInfo from a new peer writes into the free slot
RegisteredReceiver(row, src, layer, version) ==
  [row EXCEPT
     !.mac = src,
     !.layer = Terminate(strncpy(layer, MAX_LAYER_LENGTH), MAX_LAYER_LENGTH),
     !.version = Terminate(strncpy(version, MAX_VERSION_LENGTH), MAX_VERSION_LENGTH),
     !.lastSeen = now,
     !.active = TRUE,
     !.connected = TRUE]

handleReceiverInfo(src, data) ==
  IF data.len < SizeofReceiverInfo THEN NoEffect
  ELSE
    LET found == ReceiverIndex(src)
        freeSlot == FreeReceiverSlot
    IN /\ receiverTable' =
            IF found # 0
            THEN [receiverTable EXCEPT
                    ![found] = RefreshedReceiver(receiverTable[found], data.layer)]
            ELSE IF freeSlot # 0
                 THEN [receiverTable EXCEPT
                         ![freeSlot] = RegisteredReceiver(receiverTable[freeSlot], src,
                                                          data.layer, data.version)]
                 ELSE receiverTable
       /\ peers' = IF found = 0 /\ freeSlot # 0 THEN AddPeer(src) ELSE peers
       /\ espTx' = <<>>
       /\ usbTx' = <<>>
       /\ UNCHANGED <<now, modeVars, layerVars, senderTable, rfVars, syncVars>>

\* a sweep that frees the row and leaves its connected flag
MarkMissing_FreesRow(row) == [row EXCEPT !.active = FALSE]

\* what the sweep does to a silent connected row
MarkMissing(row) == [row EXCEPT !.connected = FALSE]

\* a sweep that waits twice the timeout
ReceiverTimedOut_AfterTwice(row) ==
  row.active /\ row.connected /\ ElapsedExceeds(now, row.lastSeen, 2 * RECEIVER_TIMEOUT_MS)

\* the condition under which the sweep marks a row
ReceiverTimedOut(row) ==
  row.active /\ row.connected /\ ElapsedExceeds(now, row.lastSeen, RECEIVER_TIMEOUT_MS)

cleanupReceiverTable ==
  /\ receiverTable' =
       [i \in 1..MAX_RECEIVERS |->
          IF ReceiverTimedOut(receiverTable[i])
          THEN MarkMissing(receiverTable[i])
          ELSE receiverTable[i]]
  /\ espTx' = <<>>
  /\ usbTx' = <<>>
  /\ UNCHANGED <<now, modeVars, layerVars, senderTable, peers, rfVars, syncVars>>

SenderTimedOut(row) ==
  row.active /\ ElapsedExceeds(now, row.lastSeen, SENDER_TIMEOUT_MS)

cleanupSenderTable ==
  LET gone == {i \in 1..MAX_SENDERS : SenderTimedOut(senderTable[i])}
  IN /\ senderTable' =
          [i \in 1..MAX_SENDERS |->
             IF i \in gone THEN [senderTable[i] EXCEPT !.active = FALSE]
             ELSE senderTable[i]]
     /\ peers' = peers \ {senderTable[i].mac : i \in gone}
     /\ espTx' = <<>>
     /\ usbTx' = <<>>
     /\ UNCHANGED <<now, modeVars, layerVars, receiverTable, rfVars, syncVars>>

(* ----------------------------- 7-bit codec ---------------------------- *)
Pow2(i) == 2 ^ i

\* b & (1 << i)
Bit(b, i) == (b \div Pow2(i)) % 2 = 1

\* value | 0x80
Or80(b) == IF b >= 128 THEN b ELSE b + 128

RECURSIVE MsbOf(_, _)
\* msbByte of a chunk: bit i is the top bit of input byte i
MsbOf(chunk, i) ==
  IF i > Len(chunk) THEN 0
  ELSE (IF chunk[i] >= 128 THEN Pow2(i - 1) ELSE 0) + MsbOf(chunk, i + 1)

\* the data bytes of a chunk with their top bit cleared (& 0x7F)
Low7(chunk) == [i \in 1..Len(chunk) |-> chunk[i] % 128]

RECURSIVE encode7bit(_)
encode7bit(input) ==
  IF Len(input) = 0 THEN <<>>
  ELSE LET chunkSize == IF Len(input) < 7 THEN Len(input) ELSE 7
           chunk == SubSeq(input, 1, chunkSize)
       IN <<MsbOf(chunk, 1)>> \o Low7(chunk)
            \o encode7bit(SubSeq(input, chunkSize + 1, Len(input)))

\* a decoder that reads each top bit one place too high
Restore_ShiftedBit(msbByte, chunk) ==
  [i \in 1..Len(chunk) |-> IF Bit(msbByte, i) THEN Or80(chunk[i]) ELSE chunk[i]]

\* the bytes a chunk decodes to under its msbByte
Restore(msbByte, chunk) ==
  [i \in 1..Len(chunk) |-> IF Bit(msbByte, i - 1) THEN Or80(chunk[i]) ELSE chunk[i]]

RECURSIVE decode7bit(_)
decode7bit(input) ==
  IF Len(input) = 0 THEN <<>>
  ELSE LET msbByte == input[1]
           rest == Tail(input)
           chunkSize == IF Len(rest) < 7 THEN Len(rest) ELSE 7
       IN Restore(msbByte, SubSeq(rest, 1, chunkSize))
            \o decode7bit(SubSeq(rest, chunkSize + 1, Len(rest)))

(* --------------------------- host-bound USB --------------------------- *)
\* a USB-MIDI event packet: <<header, byte1, byte2, byte3>>
At(msg, pos) == IF pos < Len(msg) THEN msg[pos + 1] ELSE 0

\* (v >> 24) & 0xFF, (v >> 16) & 0xFF, (v >> 8) & 0xFF, v & 0xFF of a word
BigEndianW(w) == <<w[1] \div 256, w[1] % 256, w[2] \div 256, w[2] % 256>>

\* the same of a millis() value
BigEndian4(v) == BigEndianW(Word(v))

\* a controller number off by one
midiSendCC100_Controller101(value) == <<11, 176, 101, value>>

\* MIDI.controlChange(100, value, 1): CIN 0xB, status 0xB0 on channel 1
midiSendCC100(value) == <<11, 176, 100, value>>

HelloMessage(uptime, resetReason) ==
  <<SYSEX_START, SYSEX_MANUFACTURER_ID, SYSEX_CMD_HELLO>>
    \o encode7bit(Pad(NOWDE_VERSION, 8))
    \o encode7bit(BigEndian4(uptime))
    \o <<resetReason % 128, SYSEX_END>>

RECURSIVE ScanPackets(_, _)
\* the chunking loop of sendHello and sendRunningState: a packet that holds
\* SYSEX_END among its next three bytes closes with CIN 5, 6 or 7
ScanPackets(message, pos) ==
  IF pos >= Len(message) THEN <<>>
  ELSE
    LET ends == {i \in 0..2 : pos + i < Len(message) /\ message[pos + i + 1] = SYSEX_END}
    IN IF ends # {}
       THEN LET endPos == Min(ends)
            IN <<IF endPos = 0 THEN <<5, message[pos + 1], 0, 0>>
                 ELSE IF endPos = 1 THEN <<6, message[pos + 1], message[pos + 2], 0>>
                 ELSE <<7, message[pos + 1], message[pos + 2], message[pos + 3]>> >>
                 \o ScanPackets(message, pos + endPos + 1)
       ELSE << <<4, message[pos + 1], At(message, pos + 1), At(message, pos + 2)>> >>
              \o ScanPackets(message, pos + 3)

sendHello(uptime, resetReason) == ScanPackets(HelloMessage(uptime, resetReason), 0)

\* a CONFIG_STATE that splits the delay into 8-bit halves
ConfigStateMessage_ByteSplit(enabled, maxDelayMs) ==
  <<SYSEX_START, SYSEX_MANUFACTURER_ID, SYSEX_CMD_CONFIG_STATE,
    IF enabled THEN 1 ELSE 0,
    (maxDelayMs \div 256) % 128,
    maxDelayMs % 128,
    SYSEX_END>>

\* the message sendConfigState builds from the settings in force
ConfigStateMessage(enabled, maxDelayMs) ==
  <<SYSEX_START, SYSEX_MANUFACTURER_ID, SYSEX_CMD_CONFIG_STATE,
    IF enabled THEN 1 ELSE 0,
    (maxDelayMs \div 128) % 128,
    maxDelayMs % 128,
    SYSEX_END>>

sendConfigState(enabled, maxDelayMs) ==
  LET message == ConfigStateMessage(enabled, maxDelayMs)
  IN << <<4, message[1], message[2], message[3]>>,
        <<4, message[4], message[5], message[6]>>,
        <<5, message[7], 0, 0>> >>

ErrorReportMessage(errorCode, context, contextLength) ==
  LET n == IF contextLength < 32 THEN contextLength ELSE 32
  IN <<SYSEX_START, SYSEX_MANUFACTURER_ID, SYSEX_CMD_ERROR_REPORT, errorCode, contextLength>>
       \o (IF contextLength > 0 THEN SubSeq(context, 1, n) ELSE <<>>)
       \o <<SYSEX_END>>

RECURSIVE ErrorReportPackets(_, _)
\* the chunking loop of sendErrorReport
ErrorReportPackets(message, pos) ==
  LET idx == Len(message)
  IN IF pos >= idx THEN <<>>
     ELSE IF pos # 0 /\ pos >= idx - 1 /\ message[idx] = SYSEX_END
          THEN << <<5, message[pos + 1], 0, 0>> >> \o ErrorReportPackets(message, pos + 1)
          ELSE << <<4, message[pos + 1], At(message, pos + 1), At(message, pos + 2)>> >>
                 \o ErrorReportPackets(message, IF pos + 3 < idx THEN pos + 3 ELSE idx)

sendErrorReport(errorCode, context, contextLength) ==
  ErrorReportPackets(ErrorReportMessage(errorCode, context, contextLength), 0)

\* the 36 raw bytes sendRunningState builds for one active row
ReceiverRecord(row) ==
  row.mac \o row.layer \o row.version
    \o BigEndianW(SubW(Word(now), Word(row.lastSeen)))
    \o <<1, row.mediaIndex>>

RECURSIVE EncodedReceivers(_)
EncodedReceivers(i) ==
  IF i > MAX_RECEIVERS THEN <<>>
  ELSE (IF receiverTable[i].active
        THEN encode7bit(ReceiverRecord(receiverTable[i])) ELSE <<>>)
         \o EncodedReceivers(i + 1)

RunningStateMessage(synced) ==
  <<SYSEX_START, SYSEX_MANUFACTURER_ID, SYSEX_CMD_RUNNING_STATE>>
    \o encode7bit(BigEndian4(now))
    \o <<IF synced THEN 1 ELSE 0,
         Cardinality({i \in 1..MAX_RECEIVERS : receiverTable[i].active})>>
    \o EncodedReceivers(1)
    \o <<SYSEX_END>>

sendRunningState(synced) == ScanPackets(RunningStateMessage(synced), 0)

(* -------------------------- receiver mode ----------------------------- *)
\* the ReceiverInfo datagram sendReceiverInfo fills in
ReceiverInfoOf(layer, index) ==
  [layer |-> Terminate(strncpy(layer, MAX_LAYER_LENGTH), MAX_LAYER_LENGTH),
   version |-> Terminate(strncpy(NOWDE_VERSION, MAX_VERSION_LENGTH), MAX_VERSION_LENGTH),
   mediaIndex |-> index,
   len |-> SizeofReceiverInfo, type |-> ESPNOW_MSG_RECEIVER_INFO]

RECURSIVE ToActiveSenders(_, _)
ToActiveSenders(i, info) ==
  IF i > MAX_SENDERS THEN <<>>
  ELSE (IF senderTable[i].active
        THEN <<[mac |-> senderTable[i].mac, data |-> info]>> ELSE <<>>)
         \o ToActiveSenders(i + 1, info)

\* the datagrams of sendReceiverInfo once the subscribed layer is `layer`
sendReceiverInfo(layer) ==
  IF ~receiverModeEnabled \/ StrLen(layer, MAX_LAYER_LENGTH) = 0 THEN <<>>
  ELSE ToActiveSenders(1, ReceiverInfoOf(layer, mediaSyncState.currentIndex))

(* ------------------------ SysEx command router ------------------------ *)
\* data[i] of the C code is data[i + 1] here
Byte(data, i) == data[i + 1]

\* the state a command may change, as the handler found it
Keep ==
  [senderModeEnabled |-> senderModeEnabled,
   rfSimulationEnabled |-> rfSimulationEnabled,
   rfSimMaxDelayMs |-> rfSimMaxDelayMs,
   delayedPackets |-> delayedPackets,
   subscribedLayer |-> subscribedLayer,
   storedLayer |-> storedLayer,
   espTx |-> <<>>,
   usbTx |-> <<>>,
   delayMs |-> 0]

QueryConfigDelayMs == 50

\* a QUERY_CONFIG that answers with the settings first
QueryConfig_ConfigFirst(env) ==
  [Keep EXCEPT
     !.senderModeEnabled = TRUE,
     !.usbTx = sendConfigState(rfSimulationEnabled, rfSimMaxDelayMs)
                 \o sendHello(now, env.resetReason),
     !.delayMs = QueryConfigDelayMs]

\* case SYSEX_CMD_QUERY_CONFIG
QueryConfig(env) ==
  [Keep EXCEPT
     !.senderModeEnabled = TRUE,
     !.usbTx = sendHello(now, env.resetReason)
                 \o sendConfigState(rfSimulationEnabled, rfSimMaxDelayMs),
     !.delayMs = QueryConfigDelayMs]

\* (data[4] & 0x7F) << 7 | (data[5] & 0x7F)
DelayOf(hi, lo) == (hi % 128) * 128 + (lo % 128)

PushFullConfig(data) ==
  IF Len(data) >= 6
  THEN LET enabled == Byte(data, 3) # 0
           maxDelay == DelayOf(Byte(data, 4), Byte(data, 5))
       IN [Keep EXCEPT
             !.senderModeEnabled = TRUE,
             !.rfSimulationEnabled = enabled,
             !.rfSimMaxDelayMs = maxDelay,
             !.usbTx = sendConfigState(enabled, maxDelay)]
  ELSE [Keep EXCEPT !.usbTx = sendErrorReport(ERROR_CONFIG_INVALID, <<>>, 0)]

QueryRunningState(env) ==
  IF senderModeEnabled
  THEN [Keep EXCEPT !.usbTx = sendRunningState(env.meshSynced)]
  ELSE Keep

\* the position the host packed as one MSB byte and four data bytes
PositionOf(data) ==
  LET b == [i \in 0..3 |->
              IF Bit(Byte(data, 20), i) THEN Or80(Byte(data, 21 + i))
              ELSE Byte(data, 21 + i)]
  IN <<b[0] * 256 + b[1], b[2] * 256 + b[3]>>

TargetLayerOf(data) ==
  Terminate(SubSeq(data, 4, 3 + MAX_LAYER_LENGTH), MAX_LAYER_LENGTH)

\* the MediaSyncPacket built from a host MEDIA_SYNC, stamped with mesh time
SyncPacketOf(data, meshTimestamp) ==
  [type |-> ESPNOW_MSG_MEDIA_SYNC, len |-> SizeofMediaSyncPacket,
   layer |-> Terminate(strncpy(TargetLayerOf(data), MAX_LAYER_LENGTH), MAX_LAYER_LENGTH),
   mediaIndex |-> Byte(data, 19),
   positionMs |-> PositionOf(data),
   state |-> Byte(data, 25),
   meshTimestamp |-> meshTimestamp]

\* a fan-out that ignores the layer
FanoutSelects_AnyLayer(row, targetLayer) == row.active

\* a fan-out that skips rows marked missing
FanoutSelects_ConnectedOnly(row, targetLayer) ==
  row.active /\ row.connected /\ strncmpEq(row.layer, targetLayer, MAX_LAYER_LENGTH)

\* the fan-out loop's test on one row
FanoutSelects(row, targetLayer) ==
  row.active /\ strncmpEq(row.layer, targetLayer, MAX_LAYER_LENGTH)

\* a ring that overwrites its first slot when it is full
Enqueue_Overwrites(ring, sendTime, packet, mac) ==
  LET free == {j \in 1..MAX_DELAYED_PACKETS : ~ring[j].active}
  IN [ring EXCEPT
        ![IF free = {} THEN 1 ELSE Min(free)] =
           [sendTime |-> sendTime, packet |-> packet, receiverMac |-> mac, active |-> TRUE]]

\* a ring that only ever fills the slots after the last active one
Enqueue_NoReuse(ring, sendTime, packet, mac) ==
  LET used == {j \in 1..MAX_DELAYED_PACKETS : ring[j].active}
      next == IF used = {} THEN 1 ELSE 1 + CHOOSE j \in used : \A k \in used : k <= j
  IN IF next > MAX_DELAYED_PACKETS THEN ring
     ELSE [ring EXCEPT
             ![next] = [sendTime |-> sendTime, packet |-> packet,
                        receiverMac |-> mac, active |-> TRUE]]

\* a ring that stamps the entry with its release time
Enqueue_Restamps(ring, sendTime, packet, mac) ==
  LET free == {j \in 1..MAX_DELAYED_PACKETS : ~ring[j].active}
  IN IF free = {} THEN ring
     ELSE [ring EXCEPT
             ![Min(free)] =
                [sendTime |-> sendTime,
                 packet |-> [packet EXCEPT !.meshTimestamp = Word(sendTime)],
                 receiverMac |-> mac, active |-> TRUE]]

\* the RF-simulation branch: the first inactive slot takes the entry, a full
\* ring drops it
Enqueue(ring, sendTime, packet, mac) ==
  LET free == {j \in 1..MAX_DELAYED_PACKETS : ~ring[j].active}
  IN IF free = {} THEN ring
     ELSE [ring EXCEPT
             ![Min(free)] = [sendTime |-> sendTime, packet |-> packet,
                             receiverMac |-> mac, active |-> TRUE]]

RECURSIVE Fanout(_, _, _, _, _)
\* rows i.. of the fan-out loop; acc carries the datagrams sent and the ring
Fanout(i, targetLayer, packet, env, acc) ==
  IF i > MAX_RECEIVERS THEN acc
  ELSE
    LET row == receiverTable[i]
    IN IF ~FanoutSelects(row, targetLayer)
       THEN Fanout(i + 1, targetLayer, packet, env, acc)
       ELSE IF ~rfSimulationEnabled
            THEN Fanout(i + 1, targetLayer, packet, env,
                        [acc EXCEPT !.espTx = Append(@, [mac |-> row.mac, data |-> packet])])
            ELSE Fanout(i + 1, targetLayer, packet, env,
                        [acc EXCEPT
                           !.delayedPackets =
                              Enqueue(@, now + env.delay[i], packet, row.mac)])

MediaSync(data, env) ==
  IF senderModeEnabled /\ Len(data) >= 27
  THEN Fanout(1, TargetLayerOf(data), SyncPacketOf(data, env.meshMillis), env, Keep)
  ELSE Keep

\* the wireless form: the bytes between the opcode and SYSEX_END are the layer
ReceiverLayerChange(data) ==
  LET layerLen == IF Len(data) - 4 < MAX_LAYER_LENGTH - 1
                  THEN Len(data) - 4 ELSE MAX_LAYER_LENGTH - 1
      newLayer == SubSeq(data, 4, 3 + layerLen) \o <<0>>
      layer == Terminate(strncpy(newLayer, MAX_LAYER_LENGTH), MAX_LAYER_LENGTH)
  IN [Keep EXCEPT
        !.subscribedLayer = layer,
        !.storedLayer = layer,
        !.espTx = sendReceiverInfo(layer)]

\* the host form: 7 bytes of encoded MAC, 19 bytes of encoded layer
SenderLayerChange(data, env) ==
  LET targetMac == decode7bit(SubSeq(data, 4, 10))
      newLayer == Terminate(SubSeq(decode7bit(SubSeq(data, 11, 29)), 1, MAX_LAYER_LENGTH),
                            MAX_LAYER_LENGTH)
      layerLen == StrLen(newLayer, MAX_LAYER_LENGTH)
      espnowMsg == <<SYSEX_START, SYSEX_MANUFACTURER_ID, SYSEX_CMD_CHANGE_RECEIVER_LAYER>>
                     \o SubSeq(newLayer, 1, layerLen) \o <<SYSEX_END>>
  IN IF ReceiverIndex(targetMac) # 0
     THEN [Keep EXCEPT
             !.espTx = <<[mac |-> targetMac,
                          data |-> [type |-> SYSEX_START, len |-> Len(espnowMsg),
                                    bytes |-> espnowMsg]]>>,
             !.usbTx = IF env.sendOk THEN <<>>
                       ELSE sendErrorReport(ERROR_ESPNOW_SEND_FAILED, targetMac, 6)]
     ELSE [Keep EXCEPT !.usbTx = sendErrorReport(ERROR_RECEIVER_TIMEOUT, targetMac, 6)]

ChangeReceiverLayer(data, env) ==
  IF receiverModeEnabled /\ Len(data) >= 4 THEN ReceiverLayerChange(data)
  ELSE IF senderModeEnabled /\ Len(data) >= 29 THEN SenderLayerChange(data, env)
  ELSE Keep

\* what handleSysExMessage does with data[0 .. length-1]
SysExEffect(data, env) ==
  LET length == Len(data)
  IN IF length < 2 THEN Keep
     ELSE IF data[1] # SYSEX_START \/ data[length] # SYSEX_END THEN Keep
     ELSE IF length < 3 \/ Byte(data, 1) # SYSEX_MANUFACTURER_ID THEN Keep
     ELSE IF length < 4
          THEN [Keep EXCEPT
                  !.usbTx = sendErrorReport(ERROR_SYSEX_PARSE_ERROR,
                                            SubSeq(data, 1, length), length)]
     ELSE LET command == Byte(data, 2)
          IN CASE command = SYSEX_CMD_QUERY_CONFIG -> QueryConfig(env)
               [] command = SYSEX_CMD_PUSH_FULL_CONFIG -> PushFullConfig(data)
               [] command = SYSEX_CMD_QUERY_RUNNING_STATE -> QueryRunningState(env)
               [] command = SYSEX_CMD_MEDIA_SYNC -> MediaSync(data, env)
               [] command = SYSEX_CMD_CHANGE_RECEIVER_LAYER -> ChangeReceiverLayer(data, env)
               [] OTHER -> [Keep EXCEPT
                              !.usbTx = sendErrorReport(ERROR_SYSEX_PARSE_ERROR,
                                                        <<command>>, 1)]

handleSysExMessage(data, env) ==
  \E e \in {SysExEffect(data, env)} :
     /\ senderModeEnabled' = e.senderModeEnabled
     /\ rfSimulationEnabled' = e.rfSimulationEnabled
     /\ rfSimMaxDelayMs' = e.rfSimMaxDelayMs
     /\ delayedPackets' = e.delayedPackets
     /\ subscribedLayer' = e.subscribedLayer
     /\ storedLayer' = e.storedLayer
     /\ espTx' = e.espTx
     /\ usbTx' = e.usbTx
     /\ now' = now + e.delayMs
     /\ UNCHANGED <<receiverModeEnabled, tableVars, syncVars>>

(* ------------------------ receiver sync engine ------------------------ *)
Abs(d) == IF d < 0 THEN 0 - d ELSE d

\* abs(timeDelta) > CLOCK_DESYNC_THRESHOLD_MS.  abs(INT32_MIN) overflows, which
\* is undefined: the build may answer either way there (absMinExceeds)
ClockDesync(timeDelta, absMinExceeds) ==
  IF timeDelta = INT32_MIN THEN absMinExceeds
  ELSE Abs(timeDelta) > CLOCK_DESYNC_THRESHOLD_MS

\* a compensation that is also added to a stopped position
Compensated_WhenStopped(positionMs, state, timeDelta) ==
  IF timeDelta > 0 THEN AddW(positionMs, FromInt32(timeDelta))
  ELSE positionMs

\* compensatedPositionMs
Compensated(positionMs, state, timeDelta) ==
  IF state = 1 /\ timeDelta > 0 THEN AddW(positionMs, FromInt32(timeDelta))
  ELSE positionMs

\* "Update sync state" and the local clock reference
SyncUpdated(st, packet, compensatedPositionMs) ==
  [st EXCEPT
     !.currentIndex = packet.mediaIndex,
     !.currentPositionMs = compensatedPositionMs,
     !.currentState = packet.state,
     !.lastSyncTime = now,
     !.linkLost = FALSE,
     !.localClockStartTime = IF packet.state = 1 THEN now ELSE @]

\* "Handle media index changes": <<state, packets written>>
IndexChange(st, packet) ==
  IF st.lastSentIndex # packet.mediaIndex /\ packet.mediaIndex # 0
  THEN <<[st EXCEPT !.lastSentIndex = packet.mediaIndex, !.lastCC100SendTime = now],
         <<midiSendCC100(packet.mediaIndex)>> >>
  ELSE <<st, <<>> >>

\* a stop branch that sends the CC and forgets to reset lastSentIndex
Transition_KeepsLastSent(st, stateChangedToPlaying, stateChangedToStopped) ==
  IF stateChangedToStopped
  THEN <<[st EXCEPT !.lastCC100SendTime = now], <<<<11, 176, 100, 0>>>> >>
  ELSE <<st, <<>> >>

\* "Handle state transitions" and the periodic resend: <<state, packets written>>
Transition(st, stateChangedToPlaying, stateChangedToStopped) ==
  IF stateChangedToPlaying THEN <<st, <<>> >>
  ELSE IF stateChangedToStopped
       THEN <<[st EXCEPT !.lastSentIndex = 0, !.lastCC100SendTime = now],
              <<midiSendCC100(0)>> >>
  ELSE IF /\ cc100RepeatIntervalMs > 0
          /\ st.currentState = 1
          /\ st.currentIndex > 0
          /\ ElapsedAtLeast(now, st.lastCC100SendTime, cc100RepeatIntervalMs)
       THEN <<[st EXCEPT !.lastCC100SendTime = now], <<midiSendCC100(st.currentIndex)>> >>
  ELSE <<st, <<>> >>

\* <<mediaSyncState, USB packets>> after an accepted packet
Accepted(packet, timeDelta) ==
  LET toStopped == mediaSyncState.currentState = 1 /\ packet.state = 0
      toPlaying == mediaSyncState.currentState = 0 /\ packet.state = 1
      s1 == SyncUpdated(mediaSyncState, packet,
                        Compensated(packet.positionMs, packet.state, timeDelta))
      s2 == IndexChange(s1, packet)
      s3 == Transition(s2[1], toPlaying, toStopped)
  IN <<s3[1], s2[2] \o s3[2]>>

processMediaSyncPacket(data, env) ==
  IF data.len < SizeofMediaSyncPacket THEN NoEffect
  ELSE IF ~strncmpEq(data.layer, subscribedLayer, MAX_LAYER_LENGTH) THEN NoEffect
  ELSE
    LET timeDelta == ToInt32(SubW(env.meshMillis, data.meshTimestamp))
    IN IF ClockDesync(timeDelta, env.absMinExceeds) THEN NoEffect
       ELSE \E r \in {Accepted(data, timeDelta)} :
               /\ mediaSyncState' = r[1]
               /\ usbTx' = r[2]
               /\ espTx' = <<>>
               /\ UNCHANGED <<now, modeVars, layerVars, tableVars, rfVars,
                              cc100RepeatIntervalMs>>

(* -------------------------- datagram dispatch ------------------------- *)
onDataRecv(src, data, env) ==
  IF data.len < 1 THEN NoEffect
  ELSE IF data.type = SYSEX_START THEN handleSysExMessage(data.bytes, env)
  ELSE IF data.type = ESPNOW_MSG_SENDER_BEACON THEN handleSenderBeacon(src)
  ELSE IF data.type = ESPNOW_MSG_RECEIVER_INFO
       THEN (IF senderModeEnabled THEN handleReceiverInfo(src, data) ELSE NoEffect)
  ELSE IF data.type = ESPNOW_MSG_MEDIA_SYNC
       THEN (IF receiverModeEnabled THEN processMediaSyncPacket(data, env) ELSE NoEffect)
  ELSE NoEffect

(* ----------------------------- main loop ------------------------------ *)
\* loop(): "Cleanup old receivers" runs while sender mode is on
LoopCleanupReceivers == senderModeEnabled /\ cleanupReceiverTable

\* loop(): "Cleanup old senders" runs while receiver mode is on
LoopCleanupSenders == receiverModeEnabled /\ cleanupSenderTable

(* ----------------------------- environment ---------------------------- *)
MacA == <<36, 111, 40, 0, 0, 1>>
MacB == <<36, 111, 40, 0, 0, 2>>
Macs == {MacA, MacB}
SenderMacs == {MacA}

\* "A", "B"
LayerA == Pad(<<65>>, MAX_LAYER_LENGTH)
LayerB == Pad(<<66>>, MAX_LAYER_LENGTH)
Layers == {LayerA, LayerB}
\* "A", a NUL, then bytes the host left behind in the field
LayerAStale == Pad(<<65, 0, 88, 89>>, MAX_LAYER_LENGTH)

\* what the handlers read from their collaborators: the mesh clock, the reset
\* reason, the driver's send result, random() per fan-out row, and the
\* build's answer to abs(INT32_MIN) > threshold
Env0 ==
  [meshMillis |-> Word(10000), resetReason |-> 1, meshSynced |-> TRUE,
   sendOk |-> TRUE, delay |-> [i \in 1..MAX_RECEIVERS |-> 0],
   absMinExceeds |-> FALSE]

SenderBeaconOf == [len |-> 1, type |-> ESPNOW_MSG_SENDER_BEACON]

\* a ReceiverInfo cut short on the air
ShortReceiverInfo == [len |-> SizeofReceiverInfo - 1, type |-> ESPNOW_MSG_RECEIVER_INFO]

\* the host's PUSH_FULL_CONFIG: F0 7D 02 enabled hi lo F7
PushFullConfigMsg(enabled, hi, lo) ==
  <<SYSEX_START, SYSEX_MANUFACTURER_ID, SYSEX_CMD_PUSH_FULL_CONFIG, enabled, hi, lo,
    SYSEX_END>>

\* the host's QUERY_CONFIG: F0 7D 01 F7
QueryConfigMsg == <<SYSEX_START, SYSEX_MANUFACTURER_ID, SYSEX_CMD_QUERY_CONFIG, SYSEX_END>>

\* the host's MEDIA_SYNC: F0 7D 10 layer[16] index msb p0 p1 p2 p3 state F7
MediaSyncMsg(layer, index, positionMs, state) ==
  <<SYSEX_START, SYSEX_MANUFACTURER_ID, SYSEX_CMD_MEDIA_SYNC>>
    \o layer \o <<index>> \o encode7bit(BigEndianW(positionMs)) \o <<state, SYSEX_END>>

MaxNow == SetupDelayMs + MaxTicks * TickMs

\* the clock moves on between handlers
Tick ==
  /\ now + TickMs <= MaxNow
  /\ now' = now + TickMs
  /\ espTx' = <<>>
  /\ usbTx' = <<>>
  /\ op' = [name |-> "Tick"]
  /\ UNCHANGED <<modeVars, layerVars, tableVars, rfVars, syncVars, pushHistory, codec, parserVars, loopTask>>

\* a PUSH_FULL_CONFIG envelope as the router sees one
IsPushFullConfig(data) ==
  /\ Len(data) >= 4
  /\ data[1] = SYSEX_START
  /\ data[Len(data)] = SYSEX_END
  /\ data[2] = SYSEX_MANUFACTURER_ID
  /\ data[3] = SYSEX_CMD_PUSH_FULL_CONFIG

\* the shape the protocol gives it: F0 7D 02 enabled hi lo F7, data bytes 7-bit
WellFormedPush(data) ==
  /\ IsPushFullConfig(data)
  /\ Len(data) = 7
  /\ \A i \in 4..6 : data[i] < 128

\* history kept for the properties: the latest well-formed PUSH_FULL_CONFIG
\* and the latest one of at least 6 bytes
HistoryAfter(data) ==
  [wellFormed |-> IF WellFormedPush(data) THEN data ELSE pushHistory.wellFormed,
   applied |-> IF IsPushFullConfig(data) /\ Len(data) >= 6 THEN data
               ELSE pushHistory.applied]

\* the MIDI task hands a complete envelope to the router
HostSysEx(data, env) ==
  /\ handleSysExMessage(data, env)
  /\ now' <= MaxNow
  /\ op' = [name |-> "handleSysExMessage", data |-> data, env |-> env]
  /\ pushHistory' = HistoryAfter(data)
  /\ UNCHANGED <<codec, parserVars, loopTask>>

\* the driver delivers a datagram
Recv(src, data, env) ==
  /\ onDataRecv(src, data, env)
  /\ now' <= MaxNow
  /\ op' = [name |-> "onDataRecv", src |-> src, data |-> data, env |-> env]
  /\ pushHistory' = IF data.len >= 1 /\ data.type = SYSEX_START
                    THEN HistoryAfter(data.bytes) ELSE pushHistory
  /\ UNCHANGED <<codec, parserVars>>
  /\ loopTask' = IF loopTask.pc = "writing" /\ loopTask.wire # <<>>
                THEN [loopTask EXCEPT !.wire = @ \o usbTx']
                ELSE loopTask

\* the state setup() leaves: receiver mode on with the stored layer
InitNode ==
  /\ now = SetupDelayMs
  /\ senderModeEnabled = FALSE
  /\ receiverModeEnabled = TRUE
  /\ storedLayer = Pad(DEFAULT_RECEIVER_LAYER, MAX_LAYER_LENGTH)
  /\ subscribedLayer = Terminate(strncpy(storedLayer, MAX_LAYER_LENGTH), MAX_LAYER_LENGTH)
  /\ senderTable = [i \in 1..MAX_SENDERS |-> SenderEntry0]
  /\ receiverTable = [i \in 1..MAX_RECEIVERS |-> ReceiverEntry0]
  /\ peers = {broadcastAddress}
  /\ rfSimulationEnabled = FALSE
  /\ rfSimMaxDelayMs = 400
  /\ delayedPackets = [j \in 1..MAX_DELAYED_PACKETS |-> DelayedPacket0]
  /\ mediaSyncState = MediaSyncState0
  /\ espTx = <<>>
  /\ usbTx = <<>>
  /\ op = [name |-> "setup"]
  /\ pushHistory = [wellFormed |-> <<>>, applied |-> <<>>]

\* loop() between two operations
LoopTask0 == [pc |-> "idle", numActive |-> 0, uptime |-> 0, synced |-> FALSE,
              sampled |-> 0, pending |-> <<>>, wire |-> <<>>]

CodecIdle == [input |-> <<>>, encoded |-> <<>>, decoded |-> <<>>, pc |-> "idle"]

(* ------------- Spec: peer tables and direct media fan-out ------------- *)
Init ==
  /\ InitNode
  /\ cc100RepeatIntervalMs = 0
  /\ codec = CodecIdle
  /\ sysexBuffer = <<>>
  /\ inSysex = FALSE
  /\ loopTask = LoopTask0

SyncPosition == <<0, 12345>>

HostEnablesSender == HostSysEx(PushFullConfigMsg(0, 0, 0), Env0)

HostMediaSync ==
  \E layer \in Layers \cup {LayerAStale}, state \in {0, 1} :
    HostSysEx(MediaSyncMsg(layer, 7 * state, SyncPosition, state), Env0)

RecvSenderBeacon == \E src \in SenderMacs : Recv(src, SenderBeaconOf, Env0)

RecvReceiverInfo ==
  \E src \in Macs, layer \in Layers :
    Recv(src, ReceiverInfoOf(layer, 0), Env0)

RecvShortReceiverInfo == Recv(MacA, ShortReceiverInfo, Env0)

SweepReceivers ==
  /\ LoopCleanupReceivers
  /\ op' = [name |-> "cleanupReceiverTable"]
  /\ UNCHANGED <<pushHistory, codec, parserVars, loopTask>>

SweepSenders ==
  /\ LoopCleanupSenders
  /\ op' = [name |-> "cleanupSenderTable"]
  /\ UNCHANGED <<pushHistory, codec, parserVars, loopTask>>

Next ==
  \/ Tick
  \/ HostEnablesSender
  \/ HostMediaSync
  \/ RecvSenderBeacon
  \/ RecvReceiverInfo
  \/ RecvShortReceiverInfo
  \/ SweepReceivers
  \/ SweepSenders

Spec == Init /\ [][Next]_vars

(* ------------------------- properties: tables ------------------------- *)
\* C1: every receiver-table row that is connected is also active, in every
\* state reachable by ReceiverInfo receptions and timeout sweeps
C1_ConnectedImpliesActive ==
  \A i \in 1..MAX_RECEIVERS : receiverTable[i].connected => receiverTable[i].active

\* a sweep has just marked a row missing while another row is still connected
C1_Witness ==
  /\ op.name = "cleanupReceiverTable"
  /\ \E i, j \in 1..MAX_RECEIVERS :
       /\ receiverTable[i].active /\ ~receiverTable[i].connected
       /\ receiverTable[j].active /\ receiverTable[j].connected

\* C2: no two active rows of the receiver table hold the same MAC, and no two
\* active rows of the sender table hold the same MAC
C2_UniqueActiveMacs ==
  /\ \A i, j \in 1..MAX_RECEIVERS :
       (i # j /\ receiverTable[i].active /\ receiverTable[j].active)
         => receiverTable[i].mac # receiverTable[j].mac
  /\ \A i, j \in 1..MAX_SENDERS :
       (i # j /\ senderTable[i].active /\ senderTable[j].active)
         => senderTable[i].mac # senderTable[j].mac

\* a ReceiverInfo from a peer registered before another one has just
\* refreshed its row instead of taking a new one, with a sender registered too
C2_Witness ==
  /\ op.name = "onDataRecv"
  /\ op.data.type = ESPNOW_MSG_RECEIVER_INFO
  /\ \E i, j \in 1..MAX_RECEIVERS :
       /\ i < j
       /\ receiverTable[i].active
       /\ receiverTable[i].mac = op.src
       /\ receiverTable[i].lastSeen = now
       /\ receiverTable[j].active
       /\ receiverTable[j].lastSeen < now
  /\ \E i \in 1..MAX_SENDERS : senderTable[i].active

(* ------------------------- properties: fan-out ------------------------ *)
\* the bytes of a layer field up to its first NUL
CStr(layer) == SubSeq(layer, 1, StrLen(layer, MAX_LAYER_LENGTH - 1))

\* the last handler run was the router on a full-length host MEDIA_SYNC
MediaSyncHandled ==
  /\ op.name = "handleSysExMessage"
  /\ Len(op.data) >= 27
  /\ op.data[3] = SYSEX_CMD_MEDIA_SYNC

\* the target layer of that MEDIA_SYNC, as a string
TargetOfOp == CStr(SubSeq(op.data, 4, 19))

\* the datagrams of the last handler that went to mac
SentTo(mac) == {k \in 1..Len(espTx) : espTx[k].mac = mac}

\* C3: with RF simulation disabled, a host MEDIA_SYNC for layer L handled in
\* sender mode sends exactly one MediaSync datagram (type 0x03) to each active
\* row whose layer is L and nothing to any other row
C3_FanoutExact ==
  (MediaSyncHandled /\ senderModeEnabled /\ ~rfSimulationEnabled) =>
    /\ \A i \in 1..MAX_RECEIVERS :
         Cardinality(SentTo(receiverTable[i].mac)) =
           IF receiverTable[i].active /\ CStr(receiverTable[i].layer) = TargetOfOp
           THEN 1 ELSE 0
    /\ \A k \in 1..Len(espTx) :
         /\ espTx[k].data.type = ESPNOW_MSG_MEDIA_SYNC
         /\ \E i \in 1..MAX_RECEIVERS :
              receiverTable[i].active /\ receiverTable[i].mac = espTx[k].mac

\* two active receivers on different layers, one of them on the target layer:
\* a single datagram went out
C3_Witness ==
  /\ MediaSyncHandled /\ senderModeEnabled /\ ~rfSimulationEnabled
  /\ Len(espTx) = 1
  /\ \E i, j \in 1..MAX_RECEIVERS :
       /\ receiverTable[i].active /\ CStr(receiverTable[i].layer) = TargetOfOp
       /\ receiverTable[j].active /\ CStr(receiverTable[j].layer) # TargetOfOp
       /\ espTx[1].mac = receiverTable[i].mac

\* C4: a row the timeout has marked connected = false still takes part in
\* fan-out: a MEDIA_SYNC with state 0 for its layer is sent to its MAC (sent
\* at once when RF simulation is off)
C4_MissingRowStillServed ==
  (MediaSyncHandled /\ senderModeEnabled /\ ~rfSimulationEnabled /\ op.data[26] = 0) =>
    \A i \in 1..MAX_RECEIVERS :
      (/\ receiverTable[i].active
       /\ ~receiverTable[i].connected
       /\ CStr(receiverTable[i].layer) = TargetOfOp)
        => \E k \in SentTo(receiverTable[i].mac) :
             /\ espTx[k].data.type = ESPNOW_MSG_MEDIA_SYNC
             /\ espTx[k].data.state = 0

\* a "stopped" MEDIA_SYNC has just been sent to a row marked missing
C4_Witness ==
  /\ MediaSyncHandled /\ senderModeEnabled /\ ~rfSimulationEnabled /\ op.data[26] = 0
  /\ \E i \in 1..MAX_RECEIVERS :
       /\ receiverTable[i].active
       /\ ~receiverTable[i].connected
       /\ CStr(receiverTable[i].layer) = TargetOfOp
       /\ SentTo(receiverTable[i].mac) # {}

(* ---------------- SpecSync: the receiver's sync engine ----------------- *)
\* the wireless task's link-lost rule: playing, and no MediaSync accepted for
\* longer than LINK_LOST_TIMEOUT_MS
LinkLostDue(st) ==
  st.currentState = 1 /\ ElapsedExceeds(now, st.lastSyncTime, LINK_LOST_TIMEOUT_MS)

\* link_lost is set; with stop_on_link_lost the engine goes to stopped
LinkLostApplied(st) ==
  IF st.stopOnLinkLost THEN [st EXCEPT !.linkLost = TRUE, !.currentState = 0]
  ELSE [st EXCEPT !.linkLost = TRUE]

\* one pass of the wireless task over the link-lost rule; the stop emits CC#100 = 0
checkLinkLost ==
  /\ mediaSyncState' =
       IF LinkLostDue(mediaSyncState) THEN LinkLostApplied(mediaSyncState)
       ELSE mediaSyncState
  /\ usbTx' =
       IF LinkLostDue(mediaSyncState) /\ mediaSyncState.stopOnLinkLost
       THEN <<midiSendCC100(0)>> ELSE <<>>
  /\ espTx' = <<>>
  /\ UNCHANGED <<now, modeVars, layerVars, tableVars, rfVars, cc100RepeatIntervalMs>>

WirelessTaskLinkCheck ==
  /\ checkLinkLost
  /\ op' = [name |-> "checkLinkLost"]
  /\ UNCHANGED <<pushHistory, codec, parserVars, loopTask>>

\* CC100_REPEAT_INTERVAL_MS is fixed by the build: off, or one second
RepeatIntervals == {0, 1000}

\* mesh_now - mesh_ts of the packets on the air: inside the window and on its
\* edges, just outside it, far outside it, and INT32_MIN
NearDeltas == {-200, 0, 200}
FarDeltas == {INT32_MIN, -201, 201, 300}

SyncIndexes == {0, 1, 2}

\* <<mediaIndex, state>> of the packets stamped outside the window
FarShapes == {<<1, 1>>, <<2, 0>>}

\* a MediaSync datagram stamped delta ms before the mesh clock of Env0
SyncPacketAt(layer, mediaIndex, state, delta) ==
  [type |-> ESPNOW_MSG_MEDIA_SYNC, len |-> SizeofMediaSyncPacket,
   layer |-> layer,
   mediaIndex |-> mediaIndex,
   positionMs |-> SyncPosition,
   state |-> state,
   meshTimestamp |-> SubW(Env0.meshMillis, FromInt32(delta))]

\* the builds differ only in what abs(INT32_MIN) > 200 answers
SyncEnvs(delta) ==
  IF delta = INT32_MIN THEN {Env0, [Env0 EXCEPT !.absMinExceeds = TRUE]} ELSE {Env0}

InitSync ==
  /\ InitNode
  /\ cc100RepeatIntervalMs \in RepeatIntervals
  /\ codec = CodecIdle
  /\ sysexBuffer = <<>>
  /\ inSysex = FALSE
  /\ loopTask = LoopTask0

RecvMediaSync ==
  \/ \E mediaIndex \in SyncIndexes, state \in {0, 1}, delta \in NearDeltas :
       Recv(MacA, SyncPacketAt(subscribedLayer, mediaIndex, state, delta), Env0)
  \/ \E shape \in FarShapes, delta \in FarDeltas :
       \E env \in SyncEnvs(delta) :
         Recv(MacA, SyncPacketAt(subscribedLayer, shape[1], shape[2], delta), env)

RecvOtherLayerSync == Recv(MacA, SyncPacketAt(LayerA, 1, 1, 0), Env0)

RecvShortMediaSync ==
  Recv(MacA, [len |-> SizeofMediaSyncPacket - 1, type |-> ESPNOW_MSG_MEDIA_SYNC], Env0)

NextSync ==
  \/ Tick
  \/ RecvMediaSync
  \/ RecvOtherLayerSync
  \/ RecvShortMediaSync
  \/ WirelessTaskLinkCheck

SpecSync == InitSync /\ [][NextSync]_vars

(* ---------------------- properties: sync engine ----------------------- *)
\* the step delivers a full-length MediaSync for the subscribed layer
SubscribedSyncStep ==
  /\ op'.name = "onDataRecv"
  /\ op'.data.type = ESPNOW_MSG_MEDIA_SYNC
  /\ op'.data.len >= SizeofMediaSyncPacket
  /\ CStr(op'.data.layer) = CStr(subscribedLayer)

\* mesh_now - mesh_ts of that step, as a signed 32-bit value
DeltaOfStep == ToInt32(SubW(op'.env.meshMillis, op'.data.meshTimestamp))

\* the host-bound packets that are CC#100 with value 0 on channel 1
CCZeroCount(packets) ==
  Cardinality({k \in 1..Len(packets) :
                 packets[k][2] = 176 /\ packets[k][3] = 100 /\ packets[k][4] = 0})

\* C5: a MediaSync for the subscribed layer whose |mesh_now - mesh_ts| exceeds
\* 200 ms is discarded: nothing goes to the host and no field of
\* MediaSyncState changes
C5_DesyncDiscarded ==
  [][(SubscribedSyncStep /\ (DeltaOfStep > 200 \/ DeltaOfStep < -200))
       => (usbTx' = <<>> /\ mediaSyncState' = mediaSyncState)]_vars

\* the step accepts the MediaSync it delivers
AcceptedSyncStep ==
  /\ SubscribedSyncStep
  /\ \/ (DeltaOfStep >= -200 /\ DeltaOfStep <= 200)
     \/ (DeltaOfStep = INT32_MIN /\ ~op'.env.absMinExceeds)

\* C6: a playing receiver that accepts a MediaSync with state 0 becomes
\* stopped with last_sent_index 0 and sends exactly one CC#100 = 0; a stopped
\* receiver that accepts further stopped packets sends no CC#100 = 0
C6_StopSendsOneCCZero ==
  [][/\ (AcceptedSyncStep /\ mediaSyncState.currentState = 1 /\ op'.data.state = 0)
          => /\ mediaSyncState'.currentState = 0
             /\ mediaSyncState'.lastSentIndex = 0
             /\ CCZeroCount(usbTx') = 1
     /\ (AcceptedSyncStep /\ mediaSyncState.currentState = 0 /\ op'.data.state = 0)
          => CCZeroCount(usbTx') = 0]_vars

\* a playing receiver has just accepted a stop that names another media
\* index: the host got that index, then the single zero
C6_Witness ==
  /\ op.name = "onDataRecv"
  /\ op.data.type = ESPNOW_MSG_MEDIA_SYNC
  /\ op.data.len >= SizeofMediaSyncPacket
  /\ op.data.state = 0
  /\ op.data.mediaIndex = 2
  /\ mediaSyncState.currentState = 0
  /\ mediaSyncState.lastSentIndex = 0
  /\ mediaSyncState.lastSyncTime = now
  /\ usbTx = <<<<11, 176, 100, 2>>, <<11, 176, 100, 0>>>>

ByteSamples == {0, 127, 128, 255}

\* n bytes that repeat pattern
Cycle(pattern, n) == [i \in 1..n |-> pattern[((i - 1) % Len(pattern)) + 1]]

CodecInputs ==
  {Cycle(pattern, n) : pattern \in [1..PatternLen -> ByteSamples], n \in 0..MaxCodecLen}

InitCodec ==
  /\ InitNode
  /\ cc100RepeatIntervalMs = 0
  /\ codec \in {[input |-> x, encoded |-> <<>>, decoded |-> <<>>, pc |-> "input"] :
                  x \in CodecInputs}
  /\ sysexBuffer = <<>>
  /\ inSysex = FALSE
  /\ loopTask = LoopTask0

\* outLen = encode7bit(input, inputLen, output)
CodecEncode ==
  /\ codec.pc = "input"
  /\ codec' = [codec EXCEPT !.encoded = encode7bit(codec.input), !.pc = "encoded"]
  /\ UNCHANGED <<now, modeVars, layerVars, tableVars, rfVars, syncVars, outVars,
                 pushHistory, parserVars, loopTask>>

\* outLen = decode7bit(encoded, encodedLen, output)
CodecDecode ==
  /\ codec.pc = "encoded"
  /\ codec' = [codec EXCEPT !.decoded = decode7bit(codec.encoded), !.pc = "decoded"]
  /\ UNCHANGED <<now, modeVars, layerVars, tableVars, rfVars, syncVars, outVars,
                 pushHistory, parserVars, loopTask>>

NextCodec ==
  \/ CodecEncode
  \/ CodecDecode

SpecCodec == InitCodec /\ [][NextCodec]_vars

(* ------------------------- properties: codec -------------------------- *)
\* C8: decoding the 7-bit encoding of a byte sequence gives back that
\* sequence, bytes and length, for every input
C8_RoundTrip == codec.pc = "decoded" => codec.decoded = codec.input

\* a round trip of 15 bytes, two full chunks and one more byte, with top bits
\* set and clear: 18 bytes were encoded
C8_Witness ==
  /\ codec.pc = "decoded"
  /\ Len(codec.input) = 15
  /\ codec.input[1] = 255
  /\ codec.input[2] = 0
  /\ codec.input[3] = 128
  /\ Len(codec.encoded) = 18
  /\ Len(codec.decoded) = 15

(* ------------- SpecConfig: QUERY_CONFIG and PUSH_FULL_CONFIG ---------- *)
\* <<enabled, hi, lo>> of the PUSH_FULL_CONFIG messages the host sends
PushSamples == {<<0, 0, 0>>, <<1, 3, 16>>, <<1, 0, 100>>, <<2, 127, 127>>}

\* a PUSH_FULL_CONFIG that lost its last data byte: F0 7D 02 01 03 F7
SixBytePush ==
  <<SYSEX_START, SYSEX_MANUFACTURER_ID, SYSEX_CMD_PUSH_FULL_CONFIG, 1, 3, SYSEX_END>>

\* one that lost two: F0 7D 02 01 F7
FiveBytePush ==
  <<SYSEX_START, SYSEX_MANUFACTURER_ID, SYSEX_CMD_PUSH_FULL_CONFIG, 1, SYSEX_END>>

\* a SysEx envelope that came over the air
WirelessSysEx(bytes) == [len |-> Len(bytes), type |-> SYSEX_START, bytes |-> bytes]

HostQueryConfig == HostSysEx(QueryConfigMsg, Env0)

HostPushFullConfig ==
  \E c \in PushSamples : HostSysEx(PushFullConfigMsg(c[1], c[2], c[3]), Env0)

HostPushSixBytes == HostSysEx(SixBytePush, Env0)

HostPushFiveBytes == HostSysEx(FiveBytePush, Env0)

RecvWirelessPush == Recv(MacA, WirelessSysEx(PushFullConfigMsg(1, 1, 1)), Env0)

NextConfig ==
  \/ HostQueryConfig
  \/ HostPushFullConfig
  \/ HostPushSixBytes
  \/ HostPushFiveBytes
  \/ RecvWirelessPush

SpecConfig == Init /\ [][NextConfig]_vars

(* ------------------------ properties: config -------------------------- *)
\* the bytes a USB-MIDI event packet carries, by its code index number
PayloadOf(packet) ==
  IF packet[1] = 5 THEN <<packet[2]>>
  ELSE IF packet[1] = 6 THEN <<packet[2], packet[3]>>
  ELSE IF packet[1] = 4 \/ packet[1] = 7 THEN <<packet[2], packet[3], packet[4]>>
  ELSE <<>>

RECURSIVE StreamOf(_)
\* the SysEx byte stream the host reads from the packets
StreamOf(packets) ==
  IF packets = <<>> THEN <<>> ELSE PayloadOf(Head(packets)) \o StreamOf(Tail(packets))

RECURSIVE EnvelopesIn(_, _)
\* the envelopes F0 .. F7 of a byte stream, in order; open holds the one
\* being read
EnvelopesIn(stream, open) ==
  IF stream = <<>> THEN <<>>
  ELSE LET b == Head(stream)
       IN IF b = 240 THEN EnvelopesIn(Tail(stream), <<b>>)
          ELSE IF open = <<>> THEN EnvelopesIn(Tail(stream), <<>>)
          ELSE IF b = 247 THEN <<open \o <<b>>>> \o EnvelopesIn(Tail(stream), <<>>)
          ELSE EnvelopesIn(Tail(stream), open \o <<b>>)

\* the envelopes the last handler sent to the host
HostEnvelopes == EnvelopesIn(StreamOf(usbTx), <<>>)

\* the last handler run was the router on QUERY_CONFIG
QueryConfigHandled == op.name = "handleSysExMessage" /\ op.data = <<240, 125, 1, 247>>

\* C9: after QUERY_CONFIG sender mode is on, whether or not it was on before,
\* and the host was sent a HELLO (0x20) envelope and then a CONFIG_STATE
\* (0x21) envelope
C9_QueryConfigReplies ==
  QueryConfigHandled =>
    /\ senderModeEnabled
    /\ Len(HostEnvelopes) = 2
    /\ HostEnvelopes[1][3] = 32
    /\ HostEnvelopes[2][3] = 33

\* a second QUERY_CONFIG, handled with sender mode already on
C9_Witness ==
  /\ QueryConfigHandled
  /\ now >= SetupDelayMs + 2 * QueryConfigDelayMs
  /\ pushHistory.applied = <<>>
  /\ Len(usbTx) > 3

\* the CONFIG_STATE envelopes the last handler sent
ConfigStateReplies ==
  {k \in 1..Len(HostEnvelopes) : HostEnvelopes[k][3] = 33}

\* 1 for an enable byte that is not zero
FlagOf(byte) == IF byte # 0 THEN 1 ELSE 0

MacC == <<36, 111, 40, 0, 0, 131>>

\* "BETA"
LayerBeta == <<66, 69, 84, 65>>

\* "ABCDEFGHIJKLMNO": the longest layer name a wireless change can carry
LongLayer == [i \in 1..(MAX_LAYER_LENGTH - 1) |-> 64 + i]

\* the host's CHANGE_RECEIVER_LAYER: F0 7D 11, the encoded MAC, the encoded
\* 16-byte layer field, F7
ChangeLayerMsg(mac, layer) ==
  <<SYSEX_START, SYSEX_MANUFACTURER_ID, SYSEX_CMD_CHANGE_RECEIVER_LAYER>>
    \o encode7bit(mac) \o encode7bit(Pad(layer, MAX_LAYER_LENGTH)) \o <<SYSEX_END>>

\* the wireless CHANGE_RECEIVER_LAYER: F0 7D 11, the layer bytes, F7
WirelessLayerMsg(payload) ==
  <<SYSEX_START, SYSEX_MANUFACTURER_ID, SYSEX_CMD_CHANGE_RECEIVER_LAYER>>
    \o payload \o <<SYSEX_END>>

\* the layers the preferences store can hold at boot: the default, or the
\* empty layer an earlier wireless change persisted
SavedLayers == {DEFAULT_RECEIVER_LAYER, <<>>}

\* setup(): receiver mode starts only when the stored layer is not empty
InitLayer ==
  \E savedLayer \in SavedLayers :
    /\ now = SetupDelayMs
    /\ senderModeEnabled = FALSE
    /\ receiverModeEnabled = (Len(savedLayer) > 0)
    /\ storedLayer = Pad(savedLayer, MAX_LAYER_LENGTH)
    /\ subscribedLayer = IF Len(savedLayer) > 0
                         THEN Terminate(strncpy(storedLayer, MAX_LAYER_LENGTH), MAX_LAYER_LENGTH)
                         ELSE ZeroLayer
    /\ senderTable = [i \in 1..MAX_SENDERS |-> SenderEntry0]
    /\ receiverTable = [i \in 1..MAX_RECEIVERS |-> ReceiverEntry0]
    /\ peers = {broadcastAddress}
    /\ rfSimulationEnabled = FALSE
    /\ rfSimMaxDelayMs = 400
    /\ delayedPackets = [j \in 1..MAX_DELAYED_PACKETS |-> DelayedPacket0]
    /\ mediaSyncState = MediaSyncState0
    /\ espTx = <<>>
    /\ usbTx = <<>>
    /\ op = [name |-> "setup"]
    /\ pushHistory = [wellFormed |-> <<>>, applied |-> <<>>]
    /\ cc100RepeatIntervalMs = 0
    /\ codec = CodecIdle
    /\ sysexBuffer = <<>>
    /\ inSysex = FALSE
    /\ loopTask = LoopTask0

\* the driver's answer to esp_now_send
SendEnvs == {[Env0 EXCEPT !.sendOk = ok] : ok \in BOOLEAN}

RecvLayerAInfo == \E src \in Macs : Recv(src, ReceiverInfoOf(LayerA, 0), Env0)

HostChangeLayer ==
  \E mac \in {MacA, MacC}, env \in SendEnvs :
    HostSysEx(ChangeLayerMsg(mac, LayerBeta), env)

\* a host CHANGE_RECEIVER_LAYER that lost its last layer bytes
HostShortChangeLayer ==
  \E n \in {4, 28} : HostSysEx(SubSeq(ChangeLayerMsg(MacA, LayerBeta), 1, n - 1) \o <<SYSEX_END>>, Env0)

RecvWirelessChangeLayer ==
  \E n \in 0..(MAX_LAYER_LENGTH - 1) :
    Recv(MacA, WirelessSysEx(WirelessLayerMsg(SubSeq(LongLayer, 1, n))), Env0)

\* a host MEDIA_SYNC cut short
HostShortMediaSync ==
  \E n \in {4, 26} :
    HostSysEx(SubSeq(MediaSyncMsg(LayerA, 1, SyncPosition, 1), 1, n - 1) \o <<SYSEX_END>>, Env0)

\* an opcode the router has no case for
HostUnknownOpcode ==
  \E command \in {SYSEX_CMD_HELLO, 127} :
    HostSysEx(<<SYSEX_START, SYSEX_MANUFACTURER_ID, command, SYSEX_END>>, Env0)

\* F0 7D F7
HostThreeBytes == HostSysEx(<<SYSEX_START, SYSEX_MANUFACTURER_ID, SYSEX_END>>, Env0)

NextLayer ==
  \/ HostEnablesSender
  \/ RecvSenderBeacon
  \/ RecvLayerAInfo
  \/ HostChangeLayer
  \/ HostShortChangeLayer
  \/ RecvWirelessChangeLayer
  \/ HostShortMediaSync
  \/ HostUnknownOpcode
  \/ HostThreeBytes

SpecLayer == InitLayer /\ [][NextLayer]_vars

\* the last handler run was the router on a full host CHANGE_RECEIVER_LAYER
HostLayerChangeHandled ==
  /\ op.name = "handleSysExMessage"
  /\ Len(op.data) = 30
  /\ op.data[2] = SYSEX_MANUFACTURER_ID
  /\ op.data[3] = SYSEX_CMD_CHANGE_RECEIVER_LAYER

\* the MAC and the layer that message carries
TargetMacOfOp == decode7bit(SubSeq(op.data, 4, 10))
LayerOfOp == CStr(decode7bit(SubSeq(op.data, 11, 29)))

\* C11: a node in sender mode that handles a host CHANGE_RECEIVER_LAYER whose
\* decoded MAC is the MAC of an active receiver row sends exactly one datagram,
\* F0 7D 11 <layer> F7, to that MAC and leaves its own subscribed and stored
\* layer as they were, whether or not its receiver mode is on
C11_ForwardedToTarget ==
  [][(HostLayerChangeHandled' /\ senderModeEnabled /\ ReceiverIndex(TargetMacOfOp') # 0)
       => /\ Len(espTx') = 1
          /\ espTx'[1].mac = TargetMacOfOp'
          /\ espTx'[1].data.type = SYSEX_START
          /\ espTx'[1].data.bytes = WirelessLayerMsg(LayerOfOp')
          /\ UNCHANGED layerVars]_vars

\* the last handler run was the dispatcher on a wireless CHANGE_RECEIVER_LAYER
\* with a layer payload of 0 to 15 bytes
WirelessLayerChangeHandled ==
  /\ op.name = "onDataRecv"
  /\ op.data.type = SYSEX_START
  /\ Len(op.data.bytes) \in 4..(3 + MAX_LAYER_LENGTH)
  /\ op.data.bytes[2] = SYSEX_MANUFACTURER_ID
  /\ op.data.bytes[3] = SYSEX_CMD_CHANGE_RECEIVER_LAYER

\* the layer bytes of that datagram
PayloadOfOp == SubSeq(op.data.bytes, 4, Len(op.data.bytes) - 1)

\* C12: a node in receiver mode that handles a wireless F0 7D 11 <layer> F7
\* has, for every layer payload of 0 to 15 bytes, its subscribed and its
\* stored layer equal to the payload afterwards, and sends every active sender
\* one ReceiverInfo carrying that layer
C12_WirelessLayerApplied ==
  [][(WirelessLayerChangeHandled' /\ receiverModeEnabled)
       => /\ CStr(subscribedLayer') = PayloadOfOp'
          /\ CStr(storedLayer') = PayloadOfOp'
          /\ \A i \in 1..MAX_SENDERS :
               senderTable[i].active =>
                 /\ Cardinality(SentTo(senderTable[i].mac)') = 1
                 /\ \A k \in SentTo(senderTable[i].mac)' :
                      /\ espTx'[k].data.type = ESPNOW_MSG_RECEIVER_INFO
                      /\ CStr(espTx'[k].data.layer) = PayloadOfOp']_vars

\* the last handler run was the router on a host envelope tagged 0x7D that
\* has an unknown opcode or is shorter than its fixed shape
MalformedHandled ==
  /\ op.name = "handleSysExMessage"
  /\ Len(op.data) >= 3
  /\ op.data[1] = SYSEX_START
  /\ op.data[Len(op.data)] = SYSEX_END
  /\ op.data[2] = SYSEX_MANUFACTURER_ID
  /\ \/ Len(op.data) < 4
     \/ op.data[3] \notin {SYSEX_CMD_QUERY_CONFIG, SYSEX_CMD_PUSH_FULL_CONFIG,
                           SYSEX_CMD_QUERY_RUNNING_STATE, SYSEX_CMD_MEDIA_SYNC,
                           SYSEX_CMD_CHANGE_RECEIVER_LAYER}
     \/ op.data[3] = SYSEX_CMD_MEDIA_SYNC /\ Len(op.data) < 27
     \/ op.data[3] = SYSEX_CMD_CHANGE_RECEIVER_LAYER /\ Len(op.data) < 29

\* C13: every malformed envelope makes the node send the host exactly one
\* ERROR_REPORT with code SYSEX_PARSE_ERROR, send nothing over the air and
\* change none of its modes, layers, tables or RF-simulation settings
C13_ParseErrorReported ==
  [][MalformedHandled'
       => /\ Len(HostEnvelopes') = 1
          /\ HostEnvelopes'[1][3] = SYSEX_CMD_ERROR_REPORT
          /\ HostEnvelopes'[1][4] = ERROR_SYSEX_PARSE_ERROR
          /\ espTx' = <<>>
          /\ UNCHANGED <<modeVars, layerVars, tableVars, rfVars>>]_vars

\* C14: a node in sender mode that handles a host CHANGE_RECEIVER_LAYER whose
\* decoded MAC is the MAC of no active receiver row sends the host one
\* ERROR_REPORT with code RECEIVER_TIMEOUT and the MAC as context, sends
\* nothing over the air and leaves the receiver table as it was
C14_UnknownTargetReported ==
  [][(HostLayerChangeHandled' /\ senderModeEnabled /\ ReceiverIndex(TargetMacOfOp') = 0)
       => /\ HostEnvelopes' =
               << <<SYSEX_START, SYSEX_MANUFACTURER_ID, SYSEX_CMD_ERROR_REPORT,
                    ERROR_RECEIVER_TIMEOUT, 6>> \o TargetMacOfOp' \o <<SYSEX_END>> >>
          /\ espTx' = <<>>
          /\ receiverTable' = receiverTable]_vars

(* ------------------- properties: timeouts of peer rows ---------------- *)
\* the receiver rows that had been silent for more than ms when the last
\* step began
SilentReceivers(ms) ==
  {i \in 1..MAX_RECEIVERS :
     receiverTable[i].active /\ now - receiverTable[i].lastSeen > ms}

\* C15: a sweep of the receiver table marks every connected row whose last
\* ReceiverInfo is more than 5000 ms old as missing (connected = false) and
\* keeps the row: active stays true, MAC and layer stay as they were
C15_SilentRowMarkedMissing ==
  [][op'.name = "cleanupReceiverTable"
       => \A i \in SilentReceivers(RECEIVER_TIMEOUT_MS) :
            receiverTable[i].connected =>
              /\ ~receiverTable'[i].connected
              /\ receiverTable'[i].active
              /\ receiverTable'[i].mac = receiverTable[i].mac
              /\ receiverTable'[i].layer = receiverTable[i].layer]_vars

\* a sweep has just left a row missing that was last heard over 5000 ms ago
C15_Witness ==
  /\ op.name = "cleanupReceiverTable"
  /\ \E i \in 1..MAX_RECEIVERS :
       /\ receiverTable[i].active
       /\ ~receiverTable[i].connected
       /\ receiverTable[i].mac = MacA
       /\ receiverTable[i].layer = LayerA
       /\ now - receiverTable[i].lastSeen > RECEIVER_TIMEOUT_MS

\* the last step was the dispatcher on a SenderBeacon
BeaconHandled == op.name = "onDataRecv" /\ op.data.type = ESPNOW_MSG_SENDER_BEACON

\* the rows of a sender table that are active and hold mac
ActiveSenderRows(table, mac) ==
  {i \in 1..MAX_SENDERS : table[i].active /\ table[i].mac = mac}

\* a sweep freed the row of mac and took it off the driver's list
FreedSender(mac) ==
  /\ ActiveSenderRows(senderTable, mac) = {}
  /\ mac \notin peers
  /\ \E i \in 1..MAX_SENDERS : senderTable[i].mac = mac

\* C17: a sweep of the sender table frees every row whose last beacon is more
\* than 5000 ms old (active = false) and removes its MAC from the driver's
\* peer list; a later beacon from that MAC puts it back in one active row and
\* back on the peer list
C17_SilentSenderFreedAndReadmitted ==
  [][/\ op'.name = "cleanupSenderTable"
          => \A i \in 1..MAX_SENDERS :
               (senderTable[i].active /\ now - senderTable[i].lastSeen > SENDER_TIMEOUT_MS)
                 => /\ ~senderTable'[i].active
                    /\ senderTable[i].mac \notin peers'
     /\ (BeaconHandled' /\ FreedSender(op'.src))
          => /\ Cardinality(ActiveSenderRows(senderTable', op'.src)) = 1
             /\ op'.src \in peers'
             /\ \A i \in ActiveSenderRows(senderTable', op'.src) : senderTable'[i].lastSeen = now']_vars

\* a sweep has just freed the row of a sender last heard over 5000 ms ago
C17_Witness ==
  /\ op.name = "cleanupSenderTable"
  /\ FreedSender(MacA)
  /\ \E i \in 1..MAX_SENDERS :
       senderTable[i].mac = MacA /\ now - senderTable[i].lastSeen > SENDER_TIMEOUT_MS

(* ---------------- SpecSilence: peers that stay silent ----------------- *)
\* the clock moves on by a little over one timeout at a time
SilenceTickMs == 5001
MaxSilenceTicks == 2

\* nothing is received and nothing is sent for SilenceTickMs
SilentTick ==
  /\ now + SilenceTickMs <= SetupDelayMs + MaxSilenceTicks * SilenceTickMs
  /\ now' = now + SilenceTickMs
  /\ espTx' = <<>>
  /\ usbTx' = <<>>
  /\ op' = [name |-> "Tick"]
  /\ UNCHANGED <<modeVars, layerVars, tableVars, rfVars, syncVars, pushHistory, codec, parserVars, loopTask>>

NextSilence ==
  \/ HostEnablesSender
  \/ RecvLayerAInfo
  \/ RecvSenderBeacon
  \/ SweepReceivers
  \/ SweepSenders
  \/ SilentTick

SpecSilence == Init /\ [][NextSilence]_vars

\* C16: a sweep that finds a receiver row silent for 10 s frees it
\* (active = false) and removes its MAC from the driver's peer list
C16_LongSilentRowFreed ==
  [][op'.name = "cleanupReceiverTable"
       => \A i \in SilentReceivers(2 * RECEIVER_TIMEOUT_MS) :
            /\ ~receiverTable'[i].active
            /\ receiverTable[i].mac \notin peers']_vars

(* ------------------- SpecOverflow: full peer tables ------------------- *)
\* the MAC of the k-th node on the air
PeerMac(k) == <<36, 111, 40, 0, 0, k>>

\* the receiver table after n receivers have announced themselves: rows are
\* never freed, so the active rows are the first n
ReceiverFills == {MAX_RECEIVERS - 2, MAX_RECEIVERS - 1, MAX_RECEIVERS}

\* the sender rows a sweep has freed since the table was last full
SenderHoles == {{}, {3}, {3, 7}, {MAX_SENDERS}}

\* nodes heard for the first time
NewMacs == {PeerMac(31), PeerMac(32), PeerMac(33)}

\* a node that has run in both modes for MaxTicks * TickMs: n receivers are
\* registered, ten senders were heard at boot and those in holes fell silent
InitOverflow ==
  \E n \in ReceiverFills, holes \in SenderHoles :
    /\ now = MaxNow
    /\ senderModeEnabled = TRUE
    /\ receiverModeEnabled = TRUE
    /\ storedLayer = Pad(DEFAULT_RECEIVER_LAYER, MAX_LAYER_LENGTH)
    /\ subscribedLayer = Terminate(strncpy(storedLayer, MAX_LAYER_LENGTH), MAX_LAYER_LENGTH)
    /\ senderTable =
         [i \in 1..MAX_SENDERS |->
            [mac |-> PeerMac(10 + i),
             lastSeen |-> IF i \in holes THEN SetupDelayMs ELSE now,
             active |-> i \notin holes]]
    /\ receiverTable =
         [i \in 1..MAX_RECEIVERS |->
            IF i <= n
            THEN RegisteredReceiver(ReceiverEntry0, PeerMac(i), LayerA, NOWDE_VERSION)
            ELSE ReceiverEntry0]
    /\ peers = {broadcastAddress} \cup {PeerMac(i) : i \in 1..n}
                 \cup {PeerMac(10 + i) : i \in (1..MAX_SENDERS) \ holes}
    /\ rfSimulationEnabled = FALSE
    /\ rfSimMaxDelayMs = 400
    /\ delayedPackets = [j \in 1..MAX_DELAYED_PACKETS |-> DelayedPacket0]
    /\ mediaSyncState = MediaSyncState0
    /\ espTx = <<>>
    /\ usbTx = <<>>
    /\ op = [name |-> "Tick"]
    /\ pushHistory = [wellFormed |-> <<>>, applied |-> <<>>]
    /\ cc100RepeatIntervalMs = 0
    /\ codec = CodecIdle
    /\ sysexBuffer = <<>>
    /\ inSysex = FALSE
    /\ loopTask = LoopTask0

RecvPeerInfo ==
  \E src \in NewMacs \cup {PeerMac(1)} : Recv(src, ReceiverInfoOf(LayerB, 0), Env0)

RecvPeerBeacon ==
  \E src \in NewMacs \cup {PeerMac(11), PeerMac(13)} : Recv(src, SenderBeaconOf, Env0)

NextOverflow ==
  \/ RecvPeerInfo
  \/ RecvPeerBeacon
  \/ SweepReceivers
  \/ SweepSenders

SpecOverflow == InitOverflow /\ [][NextOverflow]_vars

\* the last step was the dispatcher on a full-length ReceiverInfo
InfoHandled ==
  /\ op.name = "onDataRecv"
  /\ op.data.type = ESPNOW_MSG_RECEIVER_INFO
  /\ op.data.len >= SizeofReceiverInfo

\* table' is table with a row for mac in its lowest-indexed inactive slot
StoredInLowestFree(table, tableAfter, mac) ==
  \E k \in DOMAIN table :
    /\ ~table[k].active
    /\ \A j \in 1..(k - 1) : table[j].active
    /\ tableAfter[k].active
    /\ tableAfter[k].mac = mac
    /\ \A j \in DOMAIN table \ {k} : tableAfter[j] = table[j]

\* no row of table is active and holds mac
Unknown(table, mac) == \A i \in DOMAIN table : ~(table[i].active /\ table[i].mac = mac)

Full(table) == \A i \in DOMAIN table : table[i].active

\* C18: a ReceiverInfo (in sender mode) or a SenderBeacon from a MAC that has
\* no active row is stored in the lowest-indexed inactive slot of its table
\* and the MAC is added to the peer list; when all 10 rows are active the
\* table and the peer list stay as they were and the host is sent nothing
C18_LowestFreeSlotOrDropped ==
  [][/\ (InfoHandled' /\ senderModeEnabled /\ Unknown(receiverTable, op'.src))
          => IF Full(receiverTable)
             THEN receiverTable' = receiverTable /\ peers' = peers /\ usbTx' = <<>>
             ELSE /\ StoredInLowestFree(receiverTable, receiverTable', op'.src)
                  /\ peers' = peers \cup {op'.src}
     /\ (BeaconHandled' /\ Unknown(senderTable, op'.src))
          => IF Full(senderTable)
             THEN senderTable' = senderTable /\ peers' = peers /\ usbTx' = <<>>
             ELSE /\ StoredInLowestFree(senderTable, senderTable', op'.src)
                  /\ peers' = peers \cup {op'.src}]_vars

\* a ReceiverInfo from an unknown MAC has just met a full receiver table, on
\* a node whose sender table was filled again through a freed slot
C18_Witness ==
  /\ InfoHandled
  /\ Full(receiverTable)
  /\ Unknown(receiverTable, op.src)
  /\ Full(senderTable)
  /\ \E i \in 1..MAX_SENDERS : senderTable[i].mac \in NewMacs

(* ---------------- SpecRing: the delayed-packet ring ------------------- *)
\* the wireless task's clock step, and how many of them are followed
RingTickMs == 200
MaxRingTicks == 2

\* the entry's release time has passed at time t
Due(entry, t) == entry.active /\ t >= entry.sendTime

RECURSIVE Released(_, _)
\* the datagrams the drain sends at time t for slots j.., in slot order
Released(j, t) ==
  IF j > MAX_DELAYED_PACKETS THEN <<>>
  ELSE (IF Due(delayedPackets[j], t)
        THEN <<[mac |-> delayedPackets[j].receiverMac, data |-> delayedPackets[j].packet]>>
        ELSE <<>>)
         \o Released(j + 1, t)

\* the wireless task's tick: time has moved on, every entry that is due is
\* sent to its MAC and its slot is free again
drainDelayedPackets ==
  /\ now + RingTickMs <= SetupDelayMs + MaxRingTicks * RingTickMs
  /\ now' = now + RingTickMs
  /\ delayedPackets' =
       [j \in 1..MAX_DELAYED_PACKETS |->
          IF Due(delayedPackets[j], now')
          THEN [delayedPackets[j] EXCEPT !.active = FALSE]
          ELSE delayedPackets[j]]
  /\ espTx' = Released(1, now')
  /\ usbTx' = <<>>
  /\ UNCHANGED <<modeVars, layerVars, tableVars, rfSimulationEnabled, rfSimMaxDelayMs, syncVars>>

WirelessTaskDrain ==
  /\ drainDelayedPackets
  /\ op' = [name |-> "drainDelayedPackets"]
  /\ UNCHANGED <<pushHistory, codec, parserVars, loopTask>>

\* PUSH_FULL_CONFIG: RF simulation on, maximum delay (3 << 7) | 16 = 400 ms
HostEnablesRfSim == HostSysEx(PushFullConfigMsg(1, 3, 16), Env0)

\* what a MEDIA_SYNC handled now reads: the mesh clock runs with millis();
\* random() gives the maximum delay for every row right after boot, and later
\* 0 for odd rows and the maximum delay for even rows
RingEnv ==
  [Env0 EXCEPT
     !.meshMillis = AddW(Env0.meshMillis, Word(now)),
     !.delay = [i \in 1..MAX_RECEIVERS |->
                  IF now = SetupDelayMs \/ i % 2 = 0 THEN rfSimMaxDelayMs ELSE 0]]

\* the host connects: sender mode on, RF simulation still off
HostConnects == ~senderModeEnabled /\ HostEnablesSender

\* receivers announce themselves right after boot
RecvRingInfo == now = SetupDelayMs /\ RecvLayerAInfo

\* the host turns RF simulation on once
HostStartsRfSim == ~rfSimulationEnabled /\ HostEnablesRfSim

HostRingSync ==
  /\ rfSimulationEnabled
  /\ HostSysEx(MediaSyncMsg(LayerA, 1, SyncPosition, 1), RingEnv)

NextRing ==
  \/ HostConnects
  \/ RecvRingInfo
  \/ HostStartsRfSim
  \/ HostRingSync
  \/ WirelessTaskDrain

SpecRing == Init /\ [][NextRing]_vars

\* the slots of a ring that hold an entry
ActiveSlots(ring) == {j \in 1..MAX_DELAYED_PACKETS : ring[j].active}

\* the receiver rows the MEDIA_SYNC of the last step is for
SelectedRows ==
  {i \in 1..MAX_RECEIVERS :
     receiverTable[i].active /\ CStr(receiverTable[i].layer) = TargetOfOp}

\* C19: with RF simulation enabled the ring never holds more than 20 active
\* entries; a MEDIA_SYNC fan-out puts one entry per selected row into free
\* slots while there are any and leaves every slot that was active as it was,
\* and when all 20 slots are active the ring is not modified; no datagram is
\* sent by the fan-out itself
C19_FullRingDrops ==
  [][(MediaSyncHandled' /\ senderModeEnabled /\ rfSimulationEnabled)
       => /\ Cardinality(ActiveSlots(delayedPackets')) =
               Min({MAX_DELAYED_PACKETS,
                    Cardinality(ActiveSlots(delayedPackets)) + Cardinality(SelectedRows')})
          /\ \A j \in ActiveSlots(delayedPackets) : delayedPackets'[j] = delayedPackets[j]
          /\ (Cardinality(ActiveSlots(delayedPackets)) = MAX_DELAYED_PACKETS
                => delayedPackets' = delayedPackets)
          /\ espTx' = <<>>]_vars

\* a MEDIA_SYNC for a layer with receivers has just met a full ring: no entry
\* of the ring carries its mesh timestamp
C19_Witness ==
  /\ MediaSyncHandled /\ senderModeEnabled /\ rfSimulationEnabled
  /\ SelectedRows # {}
  /\ Cardinality(ActiveSlots(delayedPackets)) = MAX_DELAYED_PACKETS
  /\ \A j \in 1..MAX_DELAYED_PACKETS :
       delayedPackets[j].packet.meshTimestamp # op.env.meshMillis
  /\ espTx = <<>>

\* the last step was the wireless task's drain
DrainHandled == op.name = "drainDelayedPackets"

\* the entries of a ring whose release time is t or earlier
DueSlots(ring, t) == {j \in ActiveSlots(ring) : ring[j].sendTime <= t}

HostDirectSync ==
  /\ senderModeEnabled
  /\ ~rfSimulationEnabled
  /\ HostSysEx(MediaSyncMsg(LayerA, 1, SyncPosition, 1), RingEnv)

NextStamp ==
  \/ HostConnects
  \/ RecvRingInfo
  \/ HostStartsRfSim
  \/ HostDirectSync
  \/ HostRingSync
  \/ WirelessTaskDrain

SpecStamp == Init /\ [][NextStamp]_vars

\* C21: every MediaSync datagram produced by one MEDIA_SYNC command carries
\* the mesh time read once when the command was handled, whether it is sent
\* directly or put into the RF-simulation ring with a random delay; while an
\* entry waits in the ring its packet, mesh timestamp included, is not changed
C21_OneMeshTimePerCommand ==
  [][/\ (MediaSyncHandled' /\ senderModeEnabled)
          => /\ \A k \in 1..Len(espTx') :
                  espTx'[k].data.meshTimestamp = op'.env.meshMillis
             /\ \A j \in ActiveSlots(delayedPackets') \ ActiveSlots(delayedPackets) :
                  delayedPackets'[j].packet.meshTimestamp = op'.env.meshMillis
             /\ (SelectedRows' # {} /\ ~rfSimulationEnabled) => espTx' # <<>>
     /\ \A j \in ActiveSlots(delayedPackets) \cap ActiveSlots(delayedPackets') :
          delayedPackets'[j].packet = delayedPackets[j].packet]_vars

\* one command has just put two entries with different release times into the
\* ring, one of them delayed, and both carry the command's mesh time
C21_Witness ==
  /\ MediaSyncHandled /\ senderModeEnabled /\ rfSimulationEnabled
  /\ \E i, j \in ActiveSlots(delayedPackets) :
       /\ delayedPackets[i].sendTime = now
       /\ delayedPackets[j].sendTime > now
       /\ delayedPackets[i].packet.meshTimestamp = op.env.meshMillis
       /\ delayedPackets[j].packet.meshTimestamp = op.env.meshMillis
       /\ op.env.meshMillis = AddW(Env0.meshMillis, Word(now))

(* ------------- SpecUsb: envelopes written to the host ----------------- *)
\* the longest context sendErrorReport is given
MaxContextLen == 32

\* a context of n data bytes
ContextOf(n) == [i \in 1..n |-> i]

\* the error codes of the router's call sites
ErrorCodes == {ERROR_SYSEX_PARSE_ERROR, ERROR_RECEIVER_TIMEOUT}

\* sendErrorReport applied to a context of every length
ReportError ==
  /\ \E errorCode \in ErrorCodes, contextLength \in 0..MaxContextLen :
       /\ usbTx' = sendErrorReport(errorCode, ContextOf(contextLength), contextLength)
       /\ op' = [name |-> "sendErrorReport", errorCode |-> errorCode,
                 contextLength |-> contextLength]
  /\ espTx' = <<>>
  /\ UNCHANGED <<now, modeVars, layerVars, tableVars, rfVars, syncVars, pushHistory, codec, parserVars, loopTask>>

\* the host's QUERY_RUNNING_STATE: F0 7D 03 F7
HostQueryRunningState ==
  HostSysEx(<<SYSEX_START, SYSEX_MANUFACTURER_ID, SYSEX_CMD_QUERY_RUNNING_STATE, SYSEX_END>>,
            Env0)

\* the host's first message: HELLO and CONFIG_STATE go back, sender mode is on
HostFirstQuery == ~senderModeEnabled /\ HostQueryConfig

NextUsb ==
  \/ HostFirstQuery
  \/ RecvLayerAInfo
  \/ HostQueryRunningState
  \/ HostPushFiveBytes
  \/ HostUnknownOpcode
  \/ ReportError

SpecUsb == Init /\ [][NextUsb]_vars

\* the packet's code index number agrees with where SYSEX_END sits in it
CinMatches(p) ==
  /\ p[1] \in {4, 5, 6, 7}
  /\ p[1] = 4 => SYSEX_END \notin {p[2], p[3], p[4]}
  /\ p[1] = 5 => p[2] = SYSEX_END
  /\ p[1] = 6 => p[2] # SYSEX_END /\ p[3] = SYSEX_END
  /\ p[1] = 7 => p[2] # SYSEX_END /\ p[3] # SYSEX_END /\ p[4] = SYSEX_END

\* the opcodes of the envelopes the node sends to the host
HostBoundOpcodes ==
  {SYSEX_CMD_HELLO, SYSEX_CMD_CONFIG_STATE, SYSEX_CMD_RUNNING_STATE, SYSEX_CMD_ERROR_REPORT}

\* C22: for every envelope the node emits to the host (HELLO, CONFIG_STATE,
\* RUNNING_STATE, ERROR_REPORT with a context of 0..32 bytes), every USB-MIDI
\* packet except the last has CIN 4 and carries three envelope bytes, the last
\* packet holds the final F7 and has CIN 5, 6 or 7 for 1, 2 or 3 bytes, and
\* the packets' data bytes concatenated are exactly the envelopes
C22_PacketsFrameEnvelope ==
  usbTx # <<>> =>
    /\ \A k \in 1..Len(usbTx) :
         /\ CinMatches(usbTx[k])
         /\ (k = 1 \/ usbTx[k - 1][1] # 4)
              => /\ usbTx[k][1] = 4
                 /\ usbTx[k][2] = SYSEX_START
                 /\ usbTx[k][3] = SYSEX_MANUFACTURER_ID
                 /\ usbTx[k][4] \in HostBoundOpcodes
    /\ usbTx[Len(usbTx)][1] # 4
    /\ op.name = "sendErrorReport"
         => StreamOf(usbTx) =
              ErrorReportMessage(op.errorCode, ContextOf(op.contextLength), op.contextLength)
    /\ (op.name = "handleSysExMessage" /\ op.data[3] = SYSEX_CMD_QUERY_RUNNING_STATE)
         => StreamOf(usbTx) = RunningStateMessage(op.env.meshSynced)

(* ------------------- properties: who writes what ---------------------- *)
\* the last step was a SysEx command dispatched from the USB polling loop
MidiTaskStep == op.name = "handleSysExMessage"

\* C23: no execution path of the MIDI task (USB packet polling and the SysEx
\* commands it dispatches) writes the peer tables, the RF-simulation
\* settings, the delayed-packet ring or MediaSyncState
C23_MidiTaskWritesNoSharedState ==
  [][MidiTaskStep' => UNCHANGED <<tableVars, rfVars, mediaSyncState>>]_vars

\* the last step was the handling of an inbound datagram
DatagramStep == op.name = "onDataRecv"

\* C24: the MIDI task is the sole USB emitter; handling an inbound wireless
\* datagram (MediaSync, wireless SysEx) never writes a USB-MIDI packet
C24_DatagramHandlingWritesNoUsb ==
  [][DatagramStep' => usbTx' = <<>>]_vars

(* ---------------- SpecMidi: the USB-MIDI SysEx parser ----------------- *)
\* sizeof(sysexBuffer)
SizeofSysexBuffer == 128

\* sysexIndex: the number of bytes held
sysexIndex == Len(sysexBuffer)

\* the number of data bytes of a packet with code index number cin
DataBytes(cin) ==
  IF cin = 4 THEN 3 ELSE IF cin = 5 THEN 1 ELSE IF cin = 6 THEN 2 ELSE IF cin = 7 THEN 3
  ELSE 0

RECURSIVE StoreBytes_OffByOne(_, _, _, _)
\* the loop with the bound test written <= instead of <
StoreBytes_OffByOne(bytes, i, dataBytes, buffer) ==
  IF i > dataBytes THEN [delivered |-> FALSE, buffer |-> buffer]
  ELSE LET stored == IF Len(buffer) <= SizeofSysexBuffer THEN Append(buffer, bytes[i])
                     ELSE buffer
       IN IF bytes[i] = SYSEX_END THEN [delivered |-> TRUE, buffer |-> stored]
          ELSE StoreBytes_OffByOne(bytes, i + 1, dataBytes, stored)

RECURSIVE StoreBytes(_, _, _, _)
\* the for loop over bytes[i .. dataBytes]: a byte is stored while the buffer
\* has room; SYSEX_END hands the buffer to the router and ends the loop
StoreBytes(bytes, i, dataBytes, buffer) ==
  IF i > dataBytes THEN [delivered |-> FALSE, buffer |-> buffer]
  ELSE LET stored == IF Len(buffer) < SizeofSysexBuffer THEN Append(buffer, bytes[i])
                     ELSE buffer
       IN IF bytes[i] = SYSEX_END THEN [delivered |-> TRUE, buffer |-> stored]
          ELSE StoreBytes(bytes, i + 1, dataBytes, stored)

\* one pass of the while loop of midiProcess on a packet
\* <<header, byte1, byte2, byte3>>
PacketEffect(packet) ==
  LET cin == packet[1] % 16
      dataBytes == DataBytes(cin)
      started == packet[2] = SYSEX_START
      idle == [delivered |-> FALSE, buffer |-> sysexBuffer, inSysex |-> inSysex]
  IN IF ~(cin >= 4 /\ cin <= 7) \/ dataBytes = 0 THEN idle
     ELSE IF ~(inSysex \/ started)
          THEN idle
          ELSE LET r == StoreBytes(<<packet[2], packet[3], packet[4]>>, 1, dataBytes,
                                   IF started THEN <<>> ELSE sysexBuffer)
               IN [delivered |-> r.delivered, buffer |-> r.buffer, inSysex |-> ~r.delivered]

\* midiProcess reads one packet; a completed envelope goes to the router
\* before the parser is reset
midiProcess(packet) ==
  \E r \in {PacketEffect(packet)} :
     /\ IF r.delivered
        THEN /\ handleSysExMessage(r.buffer, Env0)
             /\ pushHistory' = HistoryAfter(r.buffer)
             /\ sysexBuffer' = <<>>
        ELSE /\ espTx' = <<>>
             /\ usbTx' = <<>>
             /\ sysexBuffer' = r.buffer
             /\ UNCHANGED <<now, modeVars, layerVars, tableVars, rfVars, syncVars,
                            pushHistory>>
     /\ inSysex' = r.inSysex
     /\ op' = [name |-> "midiProcess", packet |-> packet,
               delivered |-> IF r.delivered THEN <<r.buffer>> ELSE <<>>]
     /\ UNCHANGED <<codec, loopTask>>

\* the data bytes of the packets the host writes
ByteTriples ==
  {<<SYSEX_START, SYSEX_MANUFACTURER_ID, SYSEX_CMD_QUERY_RUNNING_STATE>>,
   <<SYSEX_END, 0, 0>>,
   <<SYSEX_CMD_QUERY_RUNNING_STATE, SYSEX_END, 0>>,
   <<SYSEX_MANUFACTURER_ID, SYSEX_CMD_QUERY_RUNNING_STATE, SYSEX_END>>,
   <<SYSEX_CMD_QUERY_RUNNING_STATE, SYSEX_START, SYSEX_MANUFACTURER_ID>>,
   <<SYSEX_START, SYSEX_END, SYSEX_START>>,
   <<SYSEX_MANUFACTURER_ID, SYSEX_END, SYSEX_MANUFACTURER_ID>>,
   <<4, 5, 6>>}

HostPackets == {<<cin>> \o t : cin \in 4..7, t \in ByteTriples}

\* the host varies its packets while the envelope is at most this long
MaxVariedLen == 6

\* the filler packet of a long envelope
FillerPacket == <<4, 0, 0, 0>>

\* the envelope being read is F0 7D 03 followed by filler
LongEnvelope ==
  /\ inSysex
  /\ sysexIndex >= 3
  /\ sysexBuffer = Pad(<<SYSEX_START, SYSEX_MANUFACTURER_ID, SYSEX_CMD_QUERY_RUNNING_STATE>>,
                       sysexIndex)

\* a packet of the host's choice arrives
MidiPacket ==
  /\ sysexIndex <= MaxVariedLen \/ LongEnvelope
  /\ \E packet \in HostPackets : midiProcess(packet)

\* the next three bytes of a long envelope arrive
MidiFiller ==
  /\ LongEnvelope
  /\ midiProcess(FillerPacket)

\* a packet that is not SysEx arrives (a control change)
MidiOther == midiProcess(<<11, 176, 100, SYSEX_START>>)

NextMidi ==
  \/ MidiPacket
  \/ MidiFiller
  \/ MidiOther

SpecMidi == Init /\ [][NextMidi]_vars

RECURSIVE ByteParser(_, _, _, _)
\* the parser of the protocol, byte by byte: F0 starts an envelope afresh,
\* F7 inside an envelope delivers it and leaves the parser idle and empty,
\* a byte outside an envelope changes nothing
ByteParser(bytes, buffer, inside, delivered) ==
  IF bytes = <<>> THEN [buffer |-> buffer, inSysex |-> inside, delivered |-> delivered]
  ELSE LET b == Head(bytes)
       IN IF b = SYSEX_START
          THEN ByteParser(Tail(bytes), <<b>>, TRUE, delivered)
          ELSE IF ~inside THEN ByteParser(Tail(bytes), buffer, FALSE, delivered)
          ELSE IF b = SYSEX_END
               THEN ByteParser(Tail(bytes), <<>>, FALSE, Append(delivered, Append(buffer, b)))
               ELSE ByteParser(Tail(bytes), Append(buffer, b), TRUE, delivered)

\* the data bytes a packet carries
ConsumedBytes(packet) == SubSeq(Tail(packet), 1, DataBytes(packet[1] % 16))

\* the last step was midiProcess on a SysEx packet
SysExPacketStep == op.name = "midiProcess" /\ op.packet[1] % 16 \in 4..7

\* C25: for any sequence of USB-MIDI packets with CIN 4..7, an F0 data byte
\* makes the parser drop what it holds and start a new envelope, each F7
\* inside an envelope delivers the bytes since that F0, F0 and F7 included,
\* to the router once and leaves the parser outside an envelope with an empty
\* buffer, and data bytes outside an envelope cause no delivery and no
\* buffer change
C25_ParserFramesEnvelopes ==
  [][SysExPacketStep'
       => \E ideal \in {ByteParser(ConsumedBytes(op'.packet), sysexBuffer, inSysex, <<>>)} :
            /\ op'.delivered = ideal.delivered
            /\ inSysex' = ideal.inSysex
            /\ sysexBuffer' = ideal.buffer]_vars

(* ----------------- properties: the desync window ---------------------- *)
\* the step took the packet it delivers into MediaSyncState
TakenIntoState ==
  /\ mediaSyncState'.currentIndex = op'.data.mediaIndex
  /\ mediaSyncState'.currentState = op'.data.state
  /\ mediaSyncState'.lastSyncTime = now
  /\ ~mediaSyncState'.linkLost

\* C26: with delta the signed 32-bit wraparound difference mesh_now - mesh_ts,
\* a MediaSync for the subscribed layer is accepted if and only if
\* -200 <= delta <= 200: accepted at 200 and -200, discarded at 201, -201 and
\* at the extreme delta = -2^31
C26_AcceptedIffWithinWindow ==
  [][SubscribedSyncStep
       => IF DeltaOfStep >= 0 - CLOCK_DESYNC_THRESHOLD_MS
             /\ DeltaOfStep <= CLOCK_DESYNC_THRESHOLD_MS
          THEN TakenIntoState
          ELSE usbTx' = <<>> /\ mediaSyncState' = mediaSyncState]_vars

(* ------------- SpecPosition: the position a receiver keeps ------------ *)
\* positions on the air: an ordinary one, and one 100 ms before 2^32
SyncPositions == {SyncPosition, <<Half - 1, Half - 100>>}

RecvPositionSync ==
  \E positionMs \in SyncPositions, state \in {0, 1}, delta \in NearDeltas :
     Recv(MacA,
          [SyncPacketAt(subscribedLayer, 1, state, delta) EXCEPT !.positionMs = positionMs],
          Env0)

NextPosition ==
  \/ Tick
  \/ RecvPositionSync
  \/ WirelessTaskLinkCheck

SpecPosition == InitSync /\ [][NextPosition]_vars

\* max(0, delta) of the step
PositiveDeltaOfStep == IF DeltaOfStep > 0 THEN DeltaOfStep ELSE 0

\* C27: after a receiver accepts a MediaSync with state = playing,
\* current_position_ms = (position_ms + max(0, delta)) mod 2^32,
\* local_clock_start = last_sync_time = the local time of reception and
\* link_lost = false; after it accepts one with state = stopped,
\* current_position_ms = position_ms and local_clock_start is not modified
C27_PositionCompensatedWhenPlaying ==
  [][/\ (AcceptedSyncStep /\ op'.data.state = 1)
          => /\ SubW(mediaSyncState'.currentPositionMs, op'.data.positionMs)
                  = Word(PositiveDeltaOfStep)
             /\ mediaSyncState'.localClockStartTime = now
             /\ mediaSyncState'.lastSyncTime = now
             /\ ~mediaSyncState'.linkLost
     /\ (AcceptedSyncStep /\ op'.data.state = 0)
          => /\ mediaSyncState'.currentPositionMs = op'.data.positionMs
             /\ mediaSyncState'.localClockStartTime = mediaSyncState.localClockStartTime]_vars

\* a playing packet stamped 200 ms ago with a position 100 ms before 2^32 has
\* just been accepted, some time after boot: the position kept has wrapped
C27_Witness ==
  /\ op.name = "onDataRecv"
  /\ op.data.type = ESPNOW_MSG_MEDIA_SYNC
  /\ op.data.len >= SizeofMediaSyncPacket
  /\ op.data.state = 1
  /\ op.data.positionMs = <<Half - 1, Half - 100>>
  /\ ToInt32(SubW(op.env.meshMillis, op.data.meshTimestamp)) = CLOCK_DESYNC_THRESHOLD_MS
  /\ mediaSyncState.currentPositionMs = <<0, 100>>
  /\ now > SetupDelayMs
  /\ mediaSyncState.localClockStartTime = now
  /\ mediaSyncState.lastSyncTime = now

(* ------------------ properties: index-change CC ----------------------- *)
\* the host-bound packets that are CC#100 with the given value on channel 1
CCWith(packets, value) ==
  {k \in 1..Len(packets) :
     packets[k][2] = 176 /\ packets[k][3] = 100 /\ packets[k][4] = value}

\* the periodic resend of CC#100 is due
ResendDue ==
  /\ cc100RepeatIntervalMs > 0
  /\ now - mediaSyncState.lastCC100SendTime >= cc100RepeatIntervalMs

\* the step before delivered a MediaSync that was accepted
AcceptedBefore ==
  /\ op.name = "onDataRecv"
  /\ op.data.type = ESPNOW_MSG_MEDIA_SYNC
  /\ op.data.len >= SizeofMediaSyncPacket
  /\ mediaSyncState.lastSyncTime = now
  /\ mediaSyncState.currentIndex = op.data.mediaIndex
  /\ mediaSyncState.currentState = op.data.state

\* C28: for every accepted MediaSync an index-change CC#100 = media_index is
\* emitted if and only if media_index is not 0 and differs from
\* last_sent_index, after which last_sent_index = media_index; consecutive
\* accepted packets carrying the same index cause no further index-change CC
C28_IndexChangeCCOnce ==
  [][AcceptedSyncStep
       => /\ (op'.data.mediaIndex # 0
                /\ op'.data.mediaIndex # mediaSyncState.lastSentIndex)
               => /\ Cardinality(CCWith(usbTx', op'.data.mediaIndex)) = 1
                  /\ mediaSyncState'.lastSentIndex = op'.data.mediaIndex
          /\ (~ResendDue
                /\ (op'.data.mediaIndex = 0
                       \/ op'.data.mediaIndex = mediaSyncState.lastSentIndex))
               => \A k \in 1..Len(usbTx') : usbTx'[k][4] = 0
          /\ (~ResendDue /\ AcceptedBefore /\ op.data.mediaIndex = op'.data.mediaIndex)
               => CCWith(usbTx', op'.data.mediaIndex) \subseteq CCWith(usbTx', 0)]_vars

\* C29: in every reachable receiver state current_state = stopped implies
\* current_index = 0, so the media_index the receiver reports in its
\* ReceiverInfo is 0 whenever it is stopped
C29_StoppedReportsZero ==
  mediaSyncState.currentState = 0
    => /\ mediaSyncState.currentIndex = 0
       /\ ReceiverInfoOf(subscribedLayer, mediaSyncState.currentIndex).mediaIndex = 0

(* ------------- SpecRoster: the roster of RUNNING_STATE ---------------- *)
\* the media indexes receivers announce: stopped, and two that are playing
InfoIndexes == {0, 1, 5}

RecvIndexedInfo ==
  \E src \in Macs, mediaIndex \in InfoIndexes :
     Recv(src, ReceiverInfoOf(LayerA, mediaIndex), Env0)

NextRoster ==
  \/ Tick
  \/ HostConnects
  \/ RecvIndexedInfo
  \/ HostQueryRunningState

SpecRoster == Init /\ [][NextRoster]_vars

\* the last step was the router on QUERY_RUNNING_STATE
RunningStateHandled ==
  /\ op.name = "handleSysExMessage"
  /\ op.data = <<SYSEX_START, SYSEX_MANUFACTURER_ID, SYSEX_CMD_QUERY_RUNNING_STATE,
                 SYSEX_END>>

\* the media index of the n-th receiver record of a RUNNING_STATE stream:
\* 10 bytes of header, then 42 encoded bytes per record, 36 when decoded
ReportedIndex(stream, n) ==
  decode7bit(SubSeq(stream, 11 + 42 * (n - 1), 10 + 42 * n))[36]

\* C30: after the sender handles a ReceiverInfo from MAC m carrying
\* media_index k, whether it inserts a row or updates one, the receiver-table
\* row for m has media_index = k, and RUNNING_STATE reports for each receiver
\* the media index its row holds
C30_RosterCarriesMediaIndex ==
  [][/\ (InfoHandled' /\ senderModeEnabled)
          => \E i \in 1..MAX_RECEIVERS :
               /\ receiverTable'[i].active
               /\ receiverTable'[i].mac = op'.src
               /\ receiverTable'[i].mediaIndex = op'.data.mediaIndex
     /\ (RunningStateHandled' /\ senderModeEnabled)
          => \A i \in 1..MAX_RECEIVERS :
               receiverTable[i].active
                 => ReportedIndex(StreamOf(usbTx'), i) = receiverTable[i].mediaIndex]_vars

(* ------------- SpecTimeCode: MIDI time code quarter frames ------------ *)
MTC_FRAMERATE == 30

\* positionMs * MTC_FRAMERATE on uint32_t: the product wraps mod 2^32
TimesFramerate(w) ==
  LET lo == w[2] * MTC_FRAMERATE
      hi == w[1] * MTC_FRAMERATE + (lo \div Half)
  IN <<hi % Half, lo % Half>>

\* w / d on uint32_t, by long division on the halves (d at most 1000)
DivW(w, d) == (w[1] \div d) * Half + (((w[1] % d) * Half + w[2]) \div d)

\* w % d on uint32_t
ModW(w, d) == ((w[1] % d) * Half + w[2]) % d

\* packet.header = 0x02, byte1 = 0xF1, byte2 = (piece << 4) | (nibble & 0x0F)
sendQuarterFrame(piece, nibble) == <<2, 241, piece * 16 + (nibble % 16), 0>>

midiSendTimeCode(positionMs) ==
  LET totalFrames == DivW(TimesFramerate(positionMs), 1000)
      frames == totalFrames % MTC_FRAMERATE
      seconds == (totalFrames \div MTC_FRAMERATE) % 60
      minutes == (totalFrames \div (MTC_FRAMERATE * 60)) % 60
      hours == (totalFrames \div (MTC_FRAMERATE * 3600)) % 24
      framerateCode == 3
  IN << sendQuarterFrame(0, frames % 16),
        sendQuarterFrame(1, (frames \div 16) % 2),
        sendQuarterFrame(2, seconds % 16),
        sendQuarterFrame(3, (seconds \div 16) % 4),
        sendQuarterFrame(4, minutes % 16),
        sendQuarterFrame(5, (minutes \div 16) % 4),
        sendQuarterFrame(6, hours % 16),
        sendQuarterFrame(7, ((hours \div 16) % 2) + framerateCode * 2) >>

\* positions around one second, one hour, one day, 2^32 / 30 and 2^32 - 1
TimeCodeHighs == {0, 1, 54, 55, 1318, 2184, 2185, 4369, Half \div 2, Half - 1}
TimeCodeLows == {0, 1, 33, 34, 999, 1000, 34952, 34953, 34954, 40000, Half - 2, Half - 1}

\* midiSendTimeCode applied to a position
SendTimeCode ==
  /\ \E hi \in TimeCodeHighs, lo \in TimeCodeLows :
       /\ usbTx' = midiSendTimeCode(<<hi, lo>>)
       /\ op' = [name |-> "midiSendTimeCode", positionMs |-> <<hi, lo>>]
  /\ espTx' = <<>>
  /\ UNCHANGED <<now, modeVars, layerVars, tableVars, rfVars, syncVars, pushHistory, codec, parserVars, loopTask>>

SpecTimeCode == Init /\ [][SendTimeCode]_vars

\* T = floor(positionMs * 30 / 1000) over the integers: with
\* positionMs = 100 q + r it is 3 q + floor(3 r / 100), which stays below 2^31
ExactFrames(positionMs) ==
  3 * DivW(positionMs, 100) + ((3 * ModW(positionMs, 100)) \div 100)

\* the nibble of the quarter frame at piece number n
NibbleOf(packets, n) == packets[n + 1][3] % 16

\* C31: for every 32-bit positionMs, midiSendTimeCode emits exactly eight
\* quarter-frame packets (CIN 2, status F1) with piece numbers 0 to 7 in
\* ascending order, whose nibbles reassemble to FF = T mod 30,
\* SS = (T div 30) mod 60, MM = (T div 1800) mod 60, HH = (T div 108000) mod 24
\* with T = floor(positionMs * 30 / 1000) computed without overflow, and
\* piece 7 carries frame-rate code 3
C31_QuarterFramesCarryTimeCode ==
  op.name = "midiSendTimeCode"
    => LET T == ExactFrames(op.positionMs)
       IN /\ Len(usbTx) = 8
          /\ \A n \in 0..7 :
               /\ usbTx[n + 1][1] = 2
               /\ usbTx[n + 1][2] = 241
               /\ usbTx[n + 1][3] \div 16 = n
          /\ NibbleOf(usbTx, 0) + 16 * NibbleOf(usbTx, 1) = T % 30
          /\ NibbleOf(usbTx, 2) + 16 * NibbleOf(usbTx, 3) = (T \div 30) % 60
          /\ NibbleOf(usbTx, 4) + 16 * NibbleOf(usbTx, 5) = (T \div 1800) % 60
          /\ NibbleOf(usbTx, 6) + 16 * (NibbleOf(usbTx, 7) % 2) = (T \div 108000) % 24
          /\ NibbleOf(usbTx, 7) \div 2 = 3

(* ------------- properties: host-bound bytes are 7-bit ----------------- *)
\* byte i of a host-bound stream opens an envelope: an F0 at the start of the
\* stream or right after an F7
OpensEnvelope(stream, i) ==
  stream[i] = SYSEX_START /\ (i = 1 \/ stream[i - 1] = SYSEX_END)

\* byte i closes an envelope: an F7 at the end of the stream or right before
\* the F0 of the next envelope
ClosesEnvelope(stream, i) ==
  stream[i] = SYSEX_END /\ (i = Len(stream) \/ stream[i + 1] = SYSEX_START)

\* C32: in every envelope the node emits to the host (HELLO, CONFIG_STATE,
\* RUNNING_STATE, ERROR_REPORT), every byte strictly between the leading F0
\* and the final F7 has its high bit clear, so F0 and F7 occur only as first
\* and last byte, whatever the error context (MAC contexts and the echoed
\* bytes of a malformed frame included)
C32_HostBoundBytesSevenBit ==
  LET stream == StreamOf(usbTx)
  IN \A i \in 1..Len(stream) :
       stream[i] >= 128 => OpensEnvelope(stream, i) \/ ClosesEnvelope(stream, i)

(* ------------- properties: the driver's peer list --------------------- *)
\* C33: on a node with both modes enabled, after any sequence of SenderBeacon
\* and ReceiverInfo receptions and timeout sweeps, the MAC of every active
\* receiver-table row and of every active sender-table row is in the driver's
\* peer list, also when one MAC is held in both tables and its sender row
\* times out while its receiver row stays active
C33_ActiveRowsArePeers ==
  (senderModeEnabled /\ receiverModeEnabled)
    => /\ \A i \in 1..MAX_RECEIVERS :
            receiverTable[i].active => receiverTable[i].mac \in peers
       /\ \A i \in 1..MAX_SENDERS :
            senderTable[i].active => senderTable[i].mac \in peers

(* ------------- SpecCount: RUNNING_STATE built while datagrams arrive -- *)
\* sendRunningState up to the count byte (sysex.cpp 465-499): uptime and the
\* sync flag are read and the active rows are counted
RunningStateCounted(synced) ==
  [LoopTask0 EXCEPT
     !.pc = "records",
     !.uptime = now,
     !.synced = synced,
     !.numActive = Cardinality({i \in 1..MAX_RECEIVERS : receiverTable[i].active})]

\* the message sendRunningState puts together: the header and the count byte
\* from the first pass, the records from the second pass over the table
RunningStateMessageOf(task) ==
  <<SYSEX_START, SYSEX_MANUFACTURER_ID, SYSEX_CMD_RUNNING_STATE>>
    \o encode7bit(BigEndian4(task.uptime))
    \o <<IF task.synced THEN 1 ELSE 0, task.numActive>>
    \o EncodedReceivers(1)
    \o <<SYSEX_END>>

\* the router on QUERY_RUNNING_STATE in sender mode, as far as the count byte
QueryCounts ==
  /\ loopTask.pc = "idle"
  /\ senderModeEnabled
  /\ loopTask' = RunningStateCounted(Env0.meshSynced)
  /\ espTx' = <<>>
  /\ usbTx' = <<>>
  /\ op' = [name |-> "sendRunningState", step |-> "count"]
  /\ UNCHANGED <<now, modeVars, layerVars, tableVars, rfVars, syncVars, pushHistory, codec, parserVars>>

\* the rest of sendRunningState: the records loop and the packets
QueryWritesRecords ==
  /\ loopTask.pc = "records"
  /\ usbTx' = ScanPackets(RunningStateMessageOf(loopTask), 0)
  /\ espTx' = <<>>
  /\ loopTask' = LoopTask0
  /\ op' = [name |-> "sendRunningState", step |-> "records"]
  /\ UNCHANGED <<now, modeVars, layerVars, tableVars, rfVars, syncVars, pushHistory, codec, parserVars>>

\* loop() takes up the host's PUSH_FULL_CONFIG between two operations
IdleHostConnects == loopTask.pc = "idle" /\ HostConnects

\* the callback runs whenever the driver has a datagram, loop() idle or not
NextCount ==
  \/ Tick
  \/ IdleHostConnects
  \/ RecvIndexedInfo
  \/ QueryCounts
  \/ QueryWritesRecords

SpecCount == Init /\ [][NextCount]_vars

\* C34: every RUNNING_STATE envelope is self-consistent under concurrent
\* table updates: its receiver-count byte equals the number of 42-byte
\* encoded receiver records that follow it, also when a ReceiverInfo insert
\* by the driver callback interleaves with the building of the message
C34_CountMatchesRecords ==
  (op.name = "sendRunningState" /\ op.step = "records")
    => LET stream == StreamOf(usbTx)
       IN /\ Len(stream) >= 11
          /\ stream[10] * 42 = Len(stream) - 11

(* ------------- SpecSweep: timeout sweeps while datagrams arrive ------- *)
\* the milliseconds that pass between a sweep's millis() and its last row
SweepMs == 1

\* unsigned long now = millis(), the first statement of both sweeps
SweepSampled(pc) == [LoopTask0 EXCEPT !.pc = pc, !.sampled = now]

\* loop() enters cleanupReceiverTable and reads the clock
SampleReceivers ==
  /\ loopTask.pc = "idle"
  /\ senderModeEnabled
  /\ loopTask' = SweepSampled("cleanupReceiverTable")
  /\ espTx' = <<>>
  /\ usbTx' = <<>>
  /\ op' = [name |-> "cleanupReceiverTable", step |-> "millis"]
  /\ UNCHANGED <<now, modeVars, layerVars, tableVars, rfVars, syncVars, pushHistory, codec, parserVars>>

\* loop() enters cleanupSenderTable and reads the clock
SampleSenders ==
  /\ loopTask.pc = "idle"
  /\ receiverModeEnabled
  /\ loopTask' = SweepSampled("cleanupSenderTable")
  /\ espTx' = <<>>
  /\ usbTx' = <<>>
  /\ op' = [name |-> "cleanupSenderTable", step |-> "millis"]
  /\ UNCHANGED <<now, modeVars, layerVars, tableVars, rfVars, syncVars, pushHistory, codec, parserVars>>

\* the clock moves on while a sweep is under way; followed for SweepMs
\* milliseconds in all
SweepTakesTime ==
  /\ loopTask.pc \in {"cleanupReceiverTable", "cleanupSenderTable"}
  /\ now < loopTask.sampled + SweepMs
  /\ (now - SetupDelayMs) % TickMs < SweepMs
  /\ now' = now + 1
  /\ espTx' = <<>>
  /\ usbTx' = <<>>
  /\ op' = [name |-> "Tick"]
  /\ UNCHANGED <<modeVars, layerVars, tableVars, rfVars, syncVars, pushHistory, codec, parserVars, loopTask>>

\* the loop of cleanupReceiverTable, comparing against the sampled clock
ExamineReceivers ==
  /\ loopTask.pc = "cleanupReceiverTable"
  /\ receiverTable' =
       [i \in 1..MAX_RECEIVERS |->
          IF /\ receiverTable[i].active
             /\ receiverTable[i].connected
             /\ ElapsedExceeds(loopTask.sampled, receiverTable[i].lastSeen,
                               RECEIVER_TIMEOUT_MS)
          THEN MarkMissing(receiverTable[i])
          ELSE receiverTable[i]]
  /\ loopTask' = LoopTask0
  /\ espTx' = <<>>
  /\ usbTx' = <<>>
  /\ op' = [name |-> "cleanupReceiverTable", step |-> "rows"]
  /\ UNCHANGED <<now, modeVars, layerVars, senderTable, peers, rfVars, syncVars, pushHistory, codec, parserVars>>

\* the loop of cleanupSenderTable, comparing against the sampled clock
ExamineSenders ==
  LET gone == {i \in 1..MAX_SENDERS :
                 /\ senderTable[i].active
                 /\ ElapsedExceeds(loopTask.sampled, senderTable[i].lastSeen,
                                   SENDER_TIMEOUT_MS)}
  IN /\ loopTask.pc = "cleanupSenderTable"
     /\ senderTable' =
          [i \in 1..MAX_SENDERS |->
             IF i \in gone THEN [senderTable[i] EXCEPT !.active = FALSE]
             ELSE senderTable[i]]
     /\ peers' = peers \ {senderTable[i].mac : i \in gone}
     /\ loopTask' = LoopTask0
     /\ espTx' = <<>>
     /\ usbTx' = <<>>
     /\ op' = [name |-> "cleanupSenderTable", step |-> "rows"]
     /\ UNCHANGED <<now, modeVars, layerVars, receiverTable, rfVars, syncVars, pushHistory, codec, parserVars>>

\* the clock moves on between two operations of loop()
IdleTick == loopTask.pc = "idle" /\ Tick

NextSweep ==
  \/ IdleTick
  \/ IdleHostConnects
  \/ RecvSenderBeacon
  \/ RecvLayerAInfo
  \/ SampleReceivers
  \/ SampleSenders
  \/ SweepTakesTime
  \/ ExamineReceivers
  \/ ExamineSenders

SpecSweep == Init /\ [][NextSweep]_vars

\* the sweep has just examined the rows
RowsExamined == op.step = "rows"

\* C35: under any interleaving of the driver receive callback with a timeout
\* sweep, a row whose peer was heard from less than 5000 ms before the sweep
\* examines it is never marked disconnected (receiver table) nor removed with
\* its peer deleted (sender table), also when last_seen is refreshed between
\* the sweep's sampling of the clock and its examination of the row
C35_FreshRowsSurviveSweep ==
  [][(op'.name \in {"cleanupReceiverTable", "cleanupSenderTable"} /\ RowsExamined')
       => /\ \A i \in 1..MAX_RECEIVERS :
               (/\ receiverTable[i].active
                /\ receiverTable[i].connected
                /\ now - receiverTable[i].lastSeen < RECEIVER_TIMEOUT_MS)
                 => receiverTable'[i].connected
          /\ \A i \in 1..MAX_SENDERS :
               (/\ senderTable[i].active
                /\ now - senderTable[i].lastSeen < SENDER_TIMEOUT_MS)
                 => /\ senderTable'[i].active
                    /\ senderTable[i].mac \in peers']_vars

(* ------------- properties: SysEx over the wireless link --------------- *)
\* the last step was the receive callback on a datagram that starts with F0
WirelessSysExHandled ==
  /\ op.name = "onDataRecv"
  /\ op.data.len >= 1
  /\ op.data.type = SYSEX_START

\* C36: a SysEx envelope arriving over the wireless link can only change the
\* receiving node's subscribed layer (opcode 0x11): for every opcode and
\* payload it never enables sender mode, never changes the RF-simulation
\* settings, and never triggers MediaSync fan-out
C36_WirelessSysExOnlyChangesLayer ==
  [][WirelessSysExHandled'
       => /\ senderModeEnabled' = senderModeEnabled
          /\ rfSimulationEnabled' = rfSimulationEnabled
          /\ rfSimMaxDelayMs' = rfSimMaxDelayMs
          /\ delayedPackets' = delayedPackets
          /\ \A k \in 1..Len(espTx') : espTx'[k].data.type # ESPNOW_MSG_MEDIA_SYNC]_vars

(* ------------- SpecWire: USB packets written from two contexts -------- *)
\* the packets followed on the wire from the first packet of an envelope on
MaxWirePackets == 6

\* sendRunningState up to its chunking loop (sysex.cpp 465-537): the message
\* is complete and no packet is written yet
QueryBuilds ==
  /\ loopTask.pc = "idle"
  /\ senderModeEnabled
  /\ loopTask' = [LoopTask0 EXCEPT !.pc = "writing",
                                   !.pending = sendRunningState(Env0.meshSynced)]
  /\ espTx' = <<>>
  /\ usbTx' = <<>>
  /\ op' = [name |-> "sendRunningState", step |-> "message"]
  /\ UNCHANGED <<now, modeVars, layerVars, tableVars, rfVars, syncVars, pushHistory, codec, parserVars>>

\* one turn of the chunking loop: midiWritePacket on the next packet
WritesPacket ==
  /\ loopTask.pc = "writing"
  /\ usbTx' = <<Head(loopTask.pending)>>
  /\ loopTask' = [loopTask EXCEPT
                    !.pc = IF Len(loopTask.pending) = 1 THEN "idle" ELSE "writing",
                    !.pending = Tail(@),
                    !.wire = @ \o <<Head(loopTask.pending)>>]
  /\ espTx' = <<>>
  /\ op' = [name |-> "midiWritePacket"]
  /\ UNCHANGED <<now, modeVars, layerVars, tableVars, rfVars, syncVars, pushHistory, codec, parserVars>>

\* room is left in the stretch of wire that is followed
WireRoom == Len(loopTask.wire) + Len(loopTask.pending) < MaxWirePackets

\* the callback gets a MediaSync for the subscribed layer
RecvTrackSync ==
  /\ WireRoom
  /\ \E mediaIndex \in {1, 2}, state \in {0, 1} :
       Recv(MacA, SyncPacketAt(subscribedLayer, mediaIndex, state, 0), Env0)

\* the callback gets a PUSH_FULL_CONFIG and answers with CONFIG_STATE
RecvPushWhileWriting == WireRoom /\ loopTask.pc = "writing" /\ RecvWirelessPush

NextWire ==
  \/ IdleHostConnects
  \/ QueryBuilds
  \/ WritesPacket
  \/ RecvTrackSync
  \/ RecvPushWhileWriting

SpecWire == Init /\ [][NextWire]_vars

\* C37: the USB-MIDI packets of one host-bound SysEx envelope are written
\* contiguously: no CC#100 packet and no packet of another envelope written
\* by inbound-wireless handling lies between the first (F0) packet and the
\* last (F7) packet of an envelope the MIDI task is emitting
C37_EnvelopePacketsContiguous ==
  LET packets == loopTask.wire \o loopTask.pending
      stream == StreamOf(packets)
  IN loopTask.wire # <<>>
       => /\ \A k \in 1..Len(packets) : packets[k][1] \in {4, 5, 6, 7}
          /\ \A i \in 1..Len(stream) :
               /\ stream[i] = SYSEX_START <=> i = 1
               /\ stream[i] = SYSEX_END <=> i = Len(stream)

(* ------------- properties: silence after a stop ----------------------- *)
\* the receiver is stopped and the last CC#100 it sent is the 0 of a stop:
\* last_sent_index is 255 at boot and 0 only after a stop was signalled
StoppedAndSignalled ==
  mediaSyncState.currentState = 0 /\ mediaSyncState.lastSentIndex = 0

\* the CC#100 values among the packets, in the order written
RECURSIVE CCValues(_)
CCValues(packets) ==
  IF packets = <<>> THEN <<>>
  ELSE (IF Head(packets)[1] = 11 /\ Head(packets)[3] = 100
        THEN <<Head(packets)[4]>> ELSE <<>>) \o CCValues(Tail(packets))

\* C38: once a receiver has made a playing-to-stopped transition, for as long
\* as current_state stays stopped the most recent CC#100 value it has emitted
\* is 0: no non-zero CC#100 is emitted while stopped, whatever media_index
\* the stopped packets carry
C38_NoCCWhileStopped ==
  [][(StoppedAndSignalled /\ mediaSyncState'.currentState = 0)
       => \A k \in 1..Len(CCValues(usbTx')) : CCValues(usbTx')[k] = 0]_vars

(* ------------- SpecBuffers: the fixed buffers of outgoing messages ---- *)
SYSEX_CMD_RECEIVER_TABLE == 3

\* uint8_t msg[256] of reportReceiversToBridge, uint8_t message[512] of
\* sendRunningState, uint8_t message[64] of sendErrorReport and
\* uint8_t espnowMsg[32] of the CHANGE_RECEIVER_LAYER forward
SizeofReportMsg == 256
SizeofRunningStateMessage == 512
SizeofErrorMessage == 64
SizeofEspnowMsg == 32

\* the 31 bytes reportReceiversToBridge stores for one active row
ReportedRow(row) ==
  row.mac \o row.layer \o row.version \o <<IF row.connected THEN 1 ELSE 0>>

RECURSIVE ReportedRows(_)
ReportedRows(i) ==
  IF i > MAX_RECEIVERS THEN <<>>
  ELSE (IF receiverTable[i].active THEN ReportedRow(receiverTable[i]) ELSE <<>>)
         \o ReportedRows(i + 1)

\* the bytes reportReceiversToBridge stores at msg[0], msg[1], ...
ReceiverTableMessage ==
  <<SYSEX_START, SYSEX_MANUFACTURER_ID, SYSEX_CMD_RECEIVER_TABLE,
    Cardinality({i \in 1..MAX_RECEIVERS : receiverTable[i].active})>>
    \o ReportedRows(1)
    \o <<SYSEX_END>>

\* the chunking loop of reportReceiversToBridge: turn p starts at
\* msgIdx = 3 (p - 1) and takes up to three bytes
ReportPackets(msg) ==
  LET idx == Len(msg)
  IN [p \in 1..((idx + 2) \div 3) |->
        LET msgIdx == 3 * (p - 1)
            remaining == idx - msgIdx
        IN IF msgIdx # 0 /\ remaining <= 3 /\ msg[idx] = SYSEX_END
           THEN <<4 + remaining, msg[msgIdx + 1],
                  IF remaining > 1 THEN msg[msgIdx + 2] ELSE 0,
                  IF remaining > 2 THEN msg[msgIdx + 3] ELSE 0>>
           ELSE <<4, msg[msgIdx + 1],
                  IF remaining > 1 THEN msg[msgIdx + 2] ELSE 0,
                  IF remaining > 2 THEN msg[msgIdx + 3] ELSE 0>>]

\* what reaches the host: the packets of the message while it fits msg[]; a
\* store past msg[255] is undefined, and the build may keep the bytes in the
\* memory behind the buffer and send them, or send nothing
reportReceiversToBridge ==
  IF Len(ReceiverTableMessage) <= SizeofReportMsg
  THEN {ReportPackets(ReceiverTableMessage)}
  ELSE {ReportPackets(ReceiverTableMessage), <<>>}

\* loop(): "Report to Bridge periodically" runs while sender mode is on
ReportReceivers ==
  /\ senderModeEnabled
  /\ usbTx' \in reportReceiversToBridge
  /\ espTx' = <<>>
  /\ op' = [name |-> "reportReceiversToBridge", idx |-> Len(ReceiverTableMessage)]
  /\ UNCHANGED <<now, modeVars, layerVars, tableVars, rfVars, syncVars, pushHistory, codec, parserVars, loopTask>>

NextBuffers ==
  \/ RecvPeerInfo
  \/ ReportReceivers
  \/ ReportError

SpecBuffers == InitOverflow /\ [][NextBuffers]_vars

\* C39: for every receiver-table state (0 to 10 active rows) and every error
\* context length, building a host-bound message never writes past the end
\* of its fixed buffer: RUNNING_STATE within 512 bytes, the receiver-table
\* report within 256 bytes, ERROR_REPORT within 64 bytes, and the forwarded
\* layer-change message within 32 bytes
C39_MessagesFitTheirBuffers ==
  /\ op.name = "reportReceiversToBridge" => op.idx <= SizeofReportMsg
  /\ RunningStateHandled => 3 * Len(usbTx) <= SizeofRunningStateMessage
  /\ op.name = "sendErrorReport" => 3 * Len(usbTx) <= SizeofErrorMessage
  /\ op.name = "handleSysExMessage"
       => \A k \in 1..Len(espTx) : espTx[k].data.len <= SizeofEspnowMsg

\* the position, among the data bytes of a packet, of the first SYSEX_END;
\* 0 when the packet carries none
EnvelopeEnd(packet) ==
  LET ends == {k \in 1..DataBytes(packet[1] % 16) : packet[k + 1] = SYSEX_END}
  IN IF ends = {} THEN 0 ELSE CHOOSE k \in ends : \A j \in ends : k <= j

\* this step is midiProcess on the packet whose SYSEX_END closes an envelope
\* of more than sizeof(sysexBuffer) bytes
OverlongEnvelopeEnds ==
  /\ op'.name = "midiProcess"
  /\ op'.packet[1] % 16 \in 4..7
  /\ inSysex
  /\ op'.packet[2] # SYSEX_START
  /\ EnvelopeEnd(op'.packet) > 0
  /\ sysexIndex + EnvelopeEnd(op'.packet) > SizeofSysexBuffer

\* C40: for any sequence of USB-MIDI packets the parser's write index never
\* exceeds the 128 bytes of its buffer, and the SYSEX_END of an envelope of
\* more than 128 bytes has no handler effect, sends nothing to the host or
\* the mesh, and leaves the parser outside an envelope with its index at 0
C40_OverlongEnvelopeDropped ==
  [][/\ sysexIndex' <= SizeofSysexBuffer
     /\ OverlongEnvelopeEnds =>
          /\ usbTx' = <<>>
          /\ espTx' = <<>>
          /\ UNCHANGED <<now, modeVars, layerVars, tableVars, rfVars, syncVars>>
          /\ ~inSysex'
          /\ sysexIndex' = 0]_vars

\* the router has been handed the first 128 bytes of a longer envelope
C40_Witness ==
  /\ op.name = "midiProcess"
  /\ op.delivered # <<>>
  /\ Len(op.delivered[1]) = SizeofSysexBuffer
  /\ op.delivered[1][SizeofSysexBuffer] # SYSEX_END
  /\ ~inSysex
  /\ sysexIndex = 0

====
